---- MODULE Spec2Model ----
(***************************************************************************)
(* EasyIndexedDB (src/EasyIndexedDB.js): the class's private fields, the   *)
(* host storage engine it drives (database version, object stores,         *)
(* connections, the queue of open requests, the pending transactions) and  *)
(* one caller that awaits each public operation before issuing the next.   *)
(*                                                                         *)
(* Every host event (upgradeneeded, success, error, a transaction's        *)
(* requests and completion) is one action; the promise reactions it        *)
(* triggers run in the same action, as microtasks do.                      *)
(***************************************************************************)
EXTENDS Integers, Sequences, FiniteSets, TLC

\* ------------------------------------------------------------- bounds
MaxOps == 5

\* ---------------------------------------------------------- constants
\* this.#databaseName once initialize has opened the database (l.45, l.54),
\* and the databases the origin has besides.
DatabaseName == "db"
OtherDatabases == {"other"}
\* The connection of another tab to the database
OtherTab == 99
\* The initial this.#timezoneLastModifyDate (l.21), and the zones of a host
\* that has the usual time zone data.
DefaultZone == "America/Sao_Paulo"
Zones == {DefaultZone, "UTC"}

Marker == "__dateLastModifyDatabase"
MarkerField == "lastModifyDate"
UserStores == {"A"}

VARIABLES
    dbVersion,            \* host: version of the database (0: it does not exist)
    stores,               \* host: object store name -> [idx, recs, nextKey]
    conns,                \* host: connections not yet closed
    closing,              \* host: connections with close() called, waiting for their transactions
    nextConn,             \* host: id of the next connection
    others,               \* host: the other databases of the origin, by name
    zones,                \* host: the time zones Intl.DateTimeFormat accepts
    openQ,                \* host: queue of open requests
    txQ,                  \* host: transactions created and not yet finished
    upg,                  \* host: the running upgrade transaction, if any
    database,             \* this.#database: [id, names] (id 0: undefined)
    databaseVersion,      \* this.#databaseVersion
    tempNewArrayObjData,  \* this.#tempNewArrayObjData (<<>>: undefined)
    timezoneLastModifyDate, \* this.#timezoneLastModifyDate
    call,                 \* the caller's current operation and its promise
    pre,                  \* history: the database when the current operation was called
    opCount               \* history: operations called so far (also the clock)

vars == <<dbVersion, stores, conns, closing, nextConn, others, zones, openQ, txQ, upg,
          database, databaseVersion, tempNewArrayObjData, timezoneLastModifyDate,
          call, pre, opCount>>

\* ------------------------------------------------------------- values
Ix(n, u) == [name |-> n, unique |-> u]
Rn(o, n, u) == [oldName |-> o, newName |-> n, unique |-> u]

NoHandle == [id |-> 0, names |-> {}]
\* The arguments of a record operation other than the records themselves.
NoQuery == [index |-> "", value |-> 0, newValue |-> 0, change |-> FALSE, all |-> FALSE,
            fields |-> <<>>, pairs |-> <<>>, list |-> <<>>]
NoArg == [idx |-> <<>>, adds |-> <<>>, removes |-> <<>>, renames |-> <<>>, recs |-> <<>>,
          q |-> NoQuery]
NoReq == [kind |-> "none", ver |-> 0, store |-> "", arg |-> NoArg, setLM |-> FALSE,
          owner |-> 0, armed |-> FALSE, data |-> <<>>, blocked |-> FALSE]
NoUpg == [conn |-> 0, req |-> NoReq, aborted |-> FALSE]
EmptyStore == [idx |-> <<>>, recs |-> <<>>, nextKey |-> 1]

\* The world the handlers act on: the variables as one record.
World == [ver |-> dbVersion, stores |-> stores, conns |-> conns, closing |-> closing,
          nextConn |-> nextConn, others |-> others, openQ |-> openQ, txQ |-> txQ, upg |-> upg,
          db |-> database, dbv |-> databaseVersion, temp |-> tempNewArrayObjData,
          tz |-> timezoneLastModifyDate, zones |-> zones,
          call |-> call, now |-> opCount]

Install(w) ==
    /\ dbVersion' = w.ver
    /\ stores' = w.stores
    /\ conns' = w.conns
    /\ closing' = w.closing
    /\ nextConn' = w.nextConn
    /\ others' = w.others
    /\ zones' = w.zones
    /\ timezoneLastModifyDate' = w.tz
    /\ openQ' = w.openQ
    /\ txQ' = w.txQ
    /\ upg' = w.upg
    /\ database' = w.db
    /\ databaseVersion' = w.dbv
    /\ tempNewArrayObjData' = w.temp
    /\ call' = w.call
    /\ opCount' = w.now

\* ------------------------------------------------------ functions as maps
MapPut(f, k, v) == [x \in (DOMAIN f) \cup {k} |-> IF x = k THEN v ELSE f[x]]
MapDel(f, k) == [x \in (DOMAIN f) \ {k} |-> f[x]]

\* ----------------------------------------------------------- promises
\* The first resolve or reject settles a promise; later ones do nothing.
Settle(w, owner, st, res) ==
    IF w.call.id = owner /\ w.call.st = "pending"
    THEN [w EXCEPT !.call.st = st, !.call.res = res]
    ELSE w
Resolve(w, owner, res) == Settle(w, owner, "resolved", res)
\* resolve(value): the promise's value is kept with its kind.
ResolveWith(w, owner, res, data) ==
    IF w.call.id = owner /\ w.call.st = "pending"
    THEN [w EXCEPT !.call.st = "resolved", !.call.res = res, !.call.data = data]
    ELSE w
Reject(w, owner, res) == Settle(w, owner, "rejected", res)

\* ---------------------------------------------------- host: connections
HasTx(w, c) == \E i \in 1..Len(w.txQ) : w.txQ[i].conn = c

\* IDBDatabase.transaction() throws InvalidStateError on a connection that is
\* closed or closing, or while its upgrade transaction runs.
CanTransact(w) ==
    /\ w.db.id \in w.conns
    /\ w.db.id \notin w.closing
    /\ w.upg.conn # w.db.id

\* this.#database.close(): the connection closes once its transactions finish.
Close(w) ==
    LET c == w.db.id IN
    IF c \notin w.conns THEN w
    ELSE IF HasTx(w, c) \/ w.upg.conn = c THEN [w EXCEPT !.closing = @ \cup {c}]
    ELSE [w EXCEPT !.conns = @ \ {c}, !.closing = @ \ {c}]

OpenRequest(w, req) == [w EXCEPT !.openQ = Append(@, req)]

\* A transaction after which the connection is released
BeginTxQReleasing(w, store, kind, recs, owner, cont, q) ==
    Close([w EXCEPT !.txQ = Append(@, [conn |-> w.db.id, store |-> store, kind |-> kind,
                                       recs |-> recs, owner |-> owner, cont |-> cont,
                                       q |-> q])])

\* this.#database.transaction(...) with the requests made on it and the
\* handlers attached to them.
BeginTxQ(w, store, kind, recs, owner, cont, q) ==
    [w EXCEPT !.txQ = Append(@, [conn |-> w.db.id, store |-> store, kind |-> kind,
                                 recs |-> recs, owner |-> owner, cont |-> cont,
                                 q |-> q])]
BeginTx(w, store, kind, recs, owner, cont) ==
    BeginTxQ(w, store, kind, recs, owner, cont, NoQuery)

\* -------------------------------------------------------- host: records
\* Two records of recs hold the same value on field f.
Dup(recs, f) ==
    \E i, j \in 1..Len(recs) :
        /\ i < j
        /\ f \in DOMAIN recs[i].val
        /\ f \in DOMAIN recs[j].val
        /\ recs[i].val[f] = recs[j].val[f]

\* An add that no index refuses
CanAddAny(st, rec) == TRUE

\* objectStore.add(rec) succeeds unless a unique index already holds rec's value.
CanAdd(st, rec) ==
    \A f \in DOMAIN st.idx :
        (st.idx[f] /\ f \in DOMAIN rec) =>
            ~\E i \in 1..Len(st.recs) :
                f \in DOMAIN st.recs[i].val /\ st.recs[i].val[f] = rec[f]

AddRec(st, rec) ==
    [st EXCEPT !.recs = Append(@, [key |-> st.nextKey, val |-> rec]),
               !.nextKey = @ + 1]

\* Adds of which the refused ones are skipped and the others kept
RECURSIVE AddAllSkipping(_, _)
AddAllSkipping(st, recs) ==
    IF recs = <<>> THEN [ok |-> TRUE, st |-> st]
    ELSE IF ~CanAdd(st, Head(recs)) THEN AddAllSkipping(st, Tail(recs))
    ELSE AddAllSkipping(AddRec(st, Head(recs)), Tail(recs))

RECURSIVE AddAll(_, _)
AddAll(st, recs) ==
    IF recs = <<>> THEN [ok |-> TRUE, st |-> st]
    ELSE IF ~CanAdd(st, Head(recs)) THEN [ok |-> FALSE, st |-> st]
    ELSE AddAll(AddRec(st, Head(recs)), Tail(recs))

\* A clear that puts a new store in the place of the old one
ClearStoreAnew(st) == EmptyStore

ClearStore(st) == [st EXCEPT !.recs = <<>>]

Values(st) == [i \in 1..Len(st.recs) |-> st.recs[i].val]

\* The positions of the records an index lists under a value: those that
\* hold the value on the index's field.
Matches(st, f, v) ==
    {i \in 1..Len(st.recs) : f \in DOMAIN st.recs[i].val /\ st.recs[i].val[f] = v}

\* index.getKey(value): the match with the lowest key (0: none, undefined)
FirstMatch(st, f, v) ==
    IF Matches(st, f, v) = {} THEN 0
    ELSE CHOOSE i \in Matches(st, f, v) : \A j \in Matches(st, f, v) : i <= j

\* objectStore.delete(key) for the records at the positions of D
DeleteAt(st, D) ==
    LET keys == {st.recs[i].key : i \in D}
    IN [st EXCEPT !.recs = SelectSeq(@, LAMBDA r : r.key \notin keys)]

FieldSet(fields) == {fields[i] : i \in 1..Len(fields)}

\* A projection that keeps the record whole
ProjectWhole(rec, fields) == rec

\* filterRecord: the fields of the list that the record has
Project(rec, fields) == [f \in FieldSet(fields) \cap DOMAIN rec |-> rec[f]]

\* delete record[index] for every field of the list
Strip(rec, fields) == [f \in (DOMAIN rec) \ FieldSet(fields) |-> rec[f]]

\* A select that returns the matched record whole, whatever fields are asked
SelectOneWhole(st, q) ==
    LET i == FirstMatch(st, q.index, q.value) IN
    IF i = 0 THEN [kind |-> "undefined", val |-> <<>>]
    ELSE [kind |-> "record", val |-> st.recs[i].val]

\* requestKey.onsuccess of selectDataObjectStore (l.265-285): undefined when
\* no record holds the value, null when the projection is empty.
SelectOne(st, q) ==
    LET i == FirstMatch(st, q.index, q.value) IN
    IF i = 0 THEN [kind |-> "undefined", val |-> <<>>]
    ELSE IF q.fields = <<>> THEN [kind |-> "record", val |-> st.recs[i].val]
    ELSE IF DOMAIN Project(st.recs[i].val, q.fields) = {} THEN [kind |-> "null", val |-> <<>>]
    ELSE [kind |-> "record", val |-> Project(st.recs[i].val, q.fields)]

\* cursor.update(row) succeeds unless another record already holds one of
\* row's values on a unique index.
CanPut(st, i, row) ==
    \A f \in DOMAIN st.idx :
        (st.idx[f] /\ f \in DOMAIN row) =>
            ~\E j \in 1..Len(st.recs) :
                j # i /\ f \in DOMAIN st.recs[j].val /\ st.recs[j].val[f] = row[f]

\* l.570-573: each pair overwrites a field the row already has.
RECURSIVE ApplyPairs(_, _)
ApplyPairs(row, pairs) ==
    IF pairs = <<>> THEN row
    ELSE ApplyPairs(IF Head(pairs).index \in DOMAIN row
                    THEN [row EXCEPT ![Head(pairs).index] = Head(pairs).value]
                    ELSE row, Tail(pairs))

\* l.567-574
ChangedRow(row, q) ==
    ApplyPairs(IF q.change THEN [row EXCEPT ![q.index] = q.newValue] ELSE row, q.pairs)

\* A cursor that stops at the first record it has updated
RECURSIVE UpdateFirstFrom(_, _, _)
UpdateFirstFrom(st, q, i) ==
    IF i > Len(st.recs) THEN [ok |-> TRUE, st |-> st]
    ELSE IF q.index \in DOMAIN st.recs[i].val /\ st.recs[i].val[q.index] = q.value
    THEN IF CanPut(st, i, ChangedRow(st.recs[i].val, q))
         THEN [ok |-> TRUE, st |-> [st EXCEPT !.recs[i].val = ChangedRow(st.recs[i].val, q)]]
         ELSE [ok |-> FALSE, st |-> st]
    ELSE UpdateFirstFrom(st, q, i + 1)

\* A cursor whose update stores the row under a new key
RECURSIVE UpdateFromRekeying(_, _, _)
UpdateFromRekeying(st, q, i) ==
    IF i > Len(st.recs) THEN [ok |-> TRUE, st |-> st]
    ELSE IF q.index \in DOMAIN st.recs[i].val /\ st.recs[i].val[q.index] = q.value
    THEN IF CanPut(st, i, ChangedRow(st.recs[i].val, q))
         THEN UpdateFromRekeying(
                  [st EXCEPT !.recs[i] = [key |-> st.nextKey,
                                          val |-> ChangedRow(st.recs[i].val, q)],
                             !.nextKey = @ + 1], q, i + 1)
         ELSE [ok |-> FALSE, st |-> st]
    ELSE UpdateFromRekeying(st, q, i + 1)

\* The cursor of updateDataObjectStore from position i on (l.559-580)
RECURSIVE UpdateFrom(_, _, _)
UpdateFrom(st, q, i) ==
    IF i > Len(st.recs) THEN [ok |-> TRUE, st |-> st]
    ELSE IF q.index \in DOMAIN st.recs[i].val /\ st.recs[i].val[q.index] = q.value
    THEN IF CanPut(st, i, ChangedRow(st.recs[i].val, q))
         THEN UpdateFrom([st EXCEPT !.recs[i].val = ChangedRow(st.recs[i].val, q)], q, i + 1)
         ELSE [ok |-> FALSE, st |-> st]
    ELSE UpdateFrom(st, q, i + 1)

\* A delete that removes the first match only, whatever is asked
DeleteFirstMatch(st, q) ==
    IF FirstMatch(st, q.index, q.value) = 0 THEN st
    ELSE DeleteAt(st, {FirstMatch(st, q.index, q.value)})

\* A delete that removes every match, asked to or not
DeleteEveryMatch(st, q) == DeleteAt(st, Matches(st, q.index, q.value))

\* One entry of a delete: the first match, or with deleteAllOccurrences every
\* match (l.609-638, 673-709).
DeleteMatches(st, q) ==
    IF q.all THEN DeleteAt(st, Matches(st, q.index, q.value))
    ELSE IF FirstMatch(st, q.index, q.value) = 0 THEN st
    ELSE DeleteAt(st, {FirstMatch(st, q.index, q.value)})

\* The loop of deleteMultipleDataObjectStore (l.713-721): it stops at the
\* first entry that fails; what was deleted before stays deleted.
RECURSIVE DeleteMany(_, _)
DeleteMany(st, list) ==
    IF list = <<>> THEN [err |-> "", st |-> st]
    ELSE IF Head(list).index \notin DOMAIN st.idx THEN [err |-> "index not found", st |-> st]
    ELSE IF ~Head(list).all /\ FirstMatch(st, Head(list).index, Head(list).value) = 0
    THEN [err |-> "value not found", st |-> st]
    ELSE DeleteMany(DeleteMatches(st, Head(list)), Tail(list))

\* index.replace(/\s+/g, "") is empty (l.122, l.372): "" and " " stand for the
\* names made of white space only.
IsBlank(n) == n \in {"", " "}

\* typeof x !== "string" (l.119, l.192, l.253, ...): the values that are not
\* strings are the number 7, written as the host converts it where a name is
\* expected ("7").
NonStrings == {"7"}
IsString(x) == x \notin NonStrings
AllStrings(list) == \A i \in 1..Len(list) : IsString(list[i])

\* ------------------------------------------------ the class: record operations
\* insertDataObjectStore (l.188-202)
insertDataObjectStore(w, name, rec, owner, cont) ==
    IF ~IsString(name) THEN Reject(w, owner, "not a string")
    ELSE IF w.db.id = 0 THEN Reject(w, owner, "not initialized")
    ELSE IF name \notin w.db.names THEN Reject(w, owner, "no such store")
    ELSE IF ~CanTransact(w) THEN Reject(w, owner, "InvalidStateError")
    ELSE BeginTx(w, name, "add", <<rec>>, owner, cont)

\* insertMultipleDataObjectStore (l.211-237); an undefined argument takes the
\* default [] and is rejected as empty.
insertMultipleDataObjectStore(w, name, recs, owner, cont) ==
    IF ~IsString(name) THEN Reject(w, owner, "not a string")
    ELSE IF recs = <<>> THEN Reject(w, owner, "no data")
    ELSE IF w.db.id = 0 THEN Reject(w, owner, "not initialized")
    ELSE IF name \notin w.db.names THEN Reject(w, owner, "no such store")
    ELSE IF ~CanTransact(w) THEN Reject(w, owner, "InvalidStateError")
    ELSE BeginTx(w, name, "addMany", recs, owner, cont)

\* selectAllDataObjectStore (l.362-400); blank field names are dropped (l.372)
selectAllDataObjectStore(w, name, indexes, owner, cont) ==
    IF ~IsString(name) \/ ~AllStrings(indexes) THEN Reject(w, owner, "not a string")
    ELSE IF w.db.id = 0 THEN Reject(w, owner, "not initialized")
    ELSE IF name \notin w.db.names THEN Reject(w, owner, "no such store")
    ELSE IF ~CanTransact(w) THEN Reject(w, owner, "InvalidStateError")
    ELSE BeginTxQ(w, name, "getAll", <<>>, owner, cont,
                  [NoQuery EXCEPT !.fields = SelectSeq(indexes, LAMBDA n : ~IsBlank(n))])

\* A deleteAllDataObjectStore whose transaction makes no request
deleteAllDataObjectStoreNoClear(w, name, owner, cont) ==
    IF ~IsString(name) THEN Reject(w, owner, "not a string")
    ELSE IF w.db.id = 0 THEN Reject(w, owner, "not initialized")
    ELSE IF name \notin w.db.names THEN Reject(w, owner, "no such store")
    ELSE IF ~CanTransact(w) THEN Reject(w, owner, "InvalidStateError")
    ELSE BeginTx(w, name, "idle", <<>>, owner, cont)

\* deleteAllDataObjectStore without a field list (l.732-766)
deleteAllDataObjectStore(w, name, owner, cont) ==
    IF ~IsString(name) THEN Reject(w, owner, "not a string")
    ELSE IF w.db.id = 0 THEN Reject(w, owner, "not initialized")
    ELSE IF name \notin w.db.names THEN Reject(w, owner, "no such store")
    ELSE IF ~CanTransact(w) THEN Reject(w, owner, "InvalidStateError")
    ELSE BeginTx(w, name, "clear", <<>>, owner, cont)

\* The tests every record operation makes before its requests, and the
\* exception of transaction() on a handle that is closed: "" when none
\* refuses.
Refusal(w, name) ==
    IF w.db.id = 0 THEN "not initialized"
    ELSE IF name \notin w.db.names THEN "no such store"
    ELSE IF ~CanTransact(w) THEN "InvalidStateError"
    ELSE ""

\* A transaction on which no request is made, or none that changes or
\* reports anything: it completes by itself.
IdleTx(w, name) == BeginTx(w, name, "idle", <<>>, 0, "none")

\* selectDataObjectStore (l.248-287)
selectDataObjectStore(w, name, q, owner) ==
    IF ~IsString(name) \/ ~IsString(q.index) \/ ~AllStrings(q.fields)
    THEN Reject(w, owner, "not a string")
    ELSE IF Refusal(w, name) # "" THEN Reject(w, owner, Refusal(w, name))
    ELSE IF q.index \notin DOMAIN w.stores[name].idx
    THEN Reject(IdleTx(w, name), owner, "index not found")
    ELSE BeginTxQ(w, name, "select", <<>>, owner, "select", q)

\* selectMultipleDataObjectStore (l.296-353): an entry whose index is missing
\* rejects the call while the requests are being made.
selectMultipleDataObjectStore(w, name, list, owner) ==
    IF ~IsString(name) THEN Reject(w, owner, "not a string")
    ELSE IF list = <<>> THEN Reject(w, owner, "no data")
    ELSE IF \E i \in 1..Len(list) : ~IsString(list[i].index) \/ ~AllStrings(list[i].fields)
    THEN Reject(w, owner, "not a string")
    ELSE IF Refusal(w, name) # "" THEN Reject(w, owner, Refusal(w, name))
    ELSE IF \E i \in 1..Len(list) : list[i].index \notin DOMAIN w.stores[name].idx
    THEN Reject(BeginTxQ(w, name, "selectMany", <<>>, owner, "none",
                         [NoQuery EXCEPT !.list = list]), owner, "index not found")
    ELSE BeginTxQ(w, name, "selectMany", <<>>, owner, "selectMany",
                  [NoQuery EXCEPT !.list = list])

\* updateDataObjectStore (l.538-583)
updateDataObjectStore(w, name, q, owner) ==
    IF ~IsString(name) \/ ~IsString(q.index) THEN Reject(w, owner, "not a string")
    ELSE IF ~q.change /\ q.pairs = <<>> THEN Reject(w, owner, "nothing to change")
    ELSE IF \E i \in 1..Len(q.pairs) : ~IsString(q.pairs[i].index)
    THEN Reject(w, owner, "not a string")
    ELSE IF Refusal(w, name) # "" THEN Reject(w, owner, Refusal(w, name))
    ELSE BeginTxQ(w, name, "update", <<>>, owner, "update", q)

\* deleteDataObjectStore (l.594-640)
deleteDataObjectStore(w, name, q, owner) ==
    IF ~IsString(name) \/ ~IsString(q.index) THEN Reject(w, owner, "not a string")
    ELSE IF Refusal(w, name) # "" THEN Reject(w, owner, Refusal(w, name))
    ELSE IF q.index \notin DOMAIN w.stores[name].idx
    THEN Reject(IdleTx(w, name), owner, "index not found")
    ELSE BeginTxQ(w, name, "delete", <<>>, owner, "delete", q)

\* deleteMultipleDataObjectStore (l.649-723): the first entry is processed
\* while the call runs, the others in the handlers of the one before.
deleteMultipleDataObjectStore(w, name, list, owner) ==
    IF ~IsString(name) THEN Reject(w, owner, "not a string")
    ELSE IF list = <<>> THEN Reject(w, owner, "no data")
    ELSE IF \E i \in 1..Len(list) : ~IsString(list[i].index)
    THEN Reject(w, owner, "not a string")
    ELSE IF Refusal(w, name) # "" THEN Reject(w, owner, Refusal(w, name))
    ELSE IF list[1].index \notin DOMAIN w.stores[name].idx
    THEN Reject(IdleTx(w, name), owner, "index not found")
    ELSE BeginTxQ(w, name, "deleteMany", <<>>, owner, "deleteMany",
                  [NoQuery EXCEPT !.list = list])

\* deleteAllDataObjectStore with a field list (l.732-766): the records are
\* read here; they are cleared and written back without the fields by the
\* calls of l.756-758.
deleteAllFieldsDataObjectStore(w, name, indexes, owner) ==
    IF ~IsString(name) \/ ~AllStrings(indexes) THEN Reject(w, owner, "not a string")
    ELSE IF indexes = <<>> THEN deleteAllDataObjectStore(w, name, owner, "user")
    ELSE IF Refusal(w, name) # "" THEN Reject(w, owner, Refusal(w, name))
    ELSE BeginTxQ(w, name, "getAll", <<>>, owner, "strip",
                  [NoQuery EXCEPT !.fields = indexes])

\* cleanObjectStore (l.774-780)
cleanObjectStore(w, name, owner) == deleteAllDataObjectStore(w, name, owner, "user")

\* getLastModifyDateDatabase (l.787-800)
getLastModifyDateDatabase(w, owner) ==
    IF w.db.id = 0 THEN Reject(w, owner, "not initialized")
    ELSE selectAllDataObjectStore(w, Marker, <<>>, owner, "lastModify")

\* indexesExistsInObjectStore (l.829-846)
indexesExistsInObjectStore(w, name, indexes, owner) ==
    IF ~AllStrings(indexes) THEN Reject(w, owner, "not a string")
    ELSE IF Refusal(w, name) # "" THEN Reject(w, owner, Refusal(w, name))
    ELSE ResolveWith(IdleTx(w, name), owner, "booleans",
                     [i \in 1..Len(indexes) |-> indexes[i] \in DOMAIN w.stores[name].idx])

\* indexExistsInObjectStore (l.809-820): no argument is tested for its type;
\* objectStoreNames.contains and indexNames.contains convert theirs to a string.
indexExistsInObjectStore(w, name, indexName, owner) ==
    IF Refusal(w, name) # "" THEN Reject(w, owner, Refusal(w, name))
    ELSE ResolveWith(IdleTx(w, name), owner, "boolean",
                     <<indexName \in DOMAIN w.stores[name].idx>>)

\* ---------------------------------------------- the class: structural operations
\* createObjectStore without the test of l.128 for an existing store
createObjectStoreUnchecked(w, name, indexes, setLM, owner) ==
    IF ~IsString(name) THEN Reject(w, owner, "not a string")
    ELSE IF \E i \in 1..Len(indexes) : ~IsString(indexes[i].name)
    THEN Reject(w, owner, "not a string")
    ELSE IF \E i \in 1..Len(indexes) : IsBlank(indexes[i].name)
    THEN Reject(w, owner, "blank index name")
    ELSE IF w.db.id = 0 THEN Reject(w, owner, "not initialized")
    ELSE Close(OpenRequest(w, [NoReq EXCEPT !.kind = "create", !.ver = w.dbv + 1,
                                            !.store = name, !.arg.idx = indexes,
                                            !.setLM = setLM, !.owner = owner,
                                            !.armed = TRUE]))

\* createObjectStore up to the open request (l.115-132)
createObjectStore(w, name, indexes, setLM, owner) ==
    IF ~IsString(name) THEN Reject(w, owner, "not a string")
    ELSE IF \E i \in 1..Len(indexes) : ~IsString(indexes[i].name)
    THEN Reject(w, owner, "not a string")
    ELSE IF \E i \in 1..Len(indexes) : IsBlank(indexes[i].name)
    THEN Reject(w, owner, "blank index name")
    ELSE IF w.db.id = 0 THEN Reject(w, owner, "not initialized")
    ELSE IF name \in w.db.names THEN Resolve(w, owner, "exists")
    ELSE Close(OpenRequest(w, [NoReq EXCEPT !.kind = "create", !.ver = w.dbv + 1,
                                            !.store = name, !.arg.idx = indexes,
                                            !.setLM = setLM, !.owner = owner,
                                            !.armed = TRUE]))

\* deleteObjectStore without the test of l.162 for an absent store
deleteObjectStoreUnchecked(w, name, owner) ==
    IF ~IsString(name) THEN Reject(w, owner, "not a string")
    ELSE IF w.db.id = 0 THEN Reject(w, owner, "not initialized")
    ELSE Close(OpenRequest(w, [NoReq EXCEPT !.kind = "delete", !.ver = w.dbv + 1,
                                            !.store = name, !.owner = owner,
                                            !.armed = TRUE]))

\* deleteObjectStore up to the open request (l.156-166)
deleteObjectStore(w, name, owner) ==
    IF ~IsString(name) THEN Reject(w, owner, "not a string")
    ELSE IF w.db.id = 0 THEN Reject(w, owner, "not initialized")
    ELSE IF name \notin w.db.names THEN Reject(w, owner, "no such store")
    ELSE Close(OpenRequest(w, [NoReq EXCEPT !.kind = "delete", !.ver = w.dbv + 1,
                                            !.store = name, !.owner = owner,
                                            !.armed = TRUE]))

\* updateStructureObjectStore up to the first open request (l.411-440)
updateStructureObjectStore(w, name, arg, owner) ==
    IF \/ ~IsString(name)
       \/ \E i \in 1..Len(arg.adds) : ~IsString(arg.adds[i].name)
       \/ ~AllStrings(arg.removes)
       \/ \E i \in 1..Len(arg.renames) :
              ~IsString(arg.renames[i].oldName) \/ ~IsString(arg.renames[i].newName)
    THEN Reject(w, owner, "not a string")
    ELSE IF w.db.id = 0 THEN Reject(w, owner, "not initialized")
    ELSE IF name \notin w.db.names THEN Reject(w, owner, "no such store")
    ELSE Close(OpenRequest(w, [NoReq EXCEPT !.kind = "upd1", !.ver = w.dbv + 1,
                                            !.store = name, !.arg = arg,
                                            !.owner = owner, !.armed = TRUE]))

\* ------------------------------------------------ the modification marker
\* The insert that ends #setLastModifyDateDatabase (l.893-897); the timestamp is
\* the clock's reading.
MarkerInsert(w) ==
    insertDataObjectStore(w, Marker, [lastModifyDate |-> w.now], 0, "none")

\* new Intl.DateTimeFormat(undefined, {timeZone: timezone}) does not throw
\* (l.874-882, l.100-101)
isValidTimezone(w, timezone) == timezone \in w.zones

\* setTimezoneLastModifyDate (l.98-104): a zone the host refuses is not kept
setTimezoneLastModifyDate(w, timezone) ==
    IF isValidTimezone(w, timezone) THEN [w EXCEPT !.tz = timezone] ELSE w

\* #setLastModifyDateDatabase failing the operation that called it when the
\* time zone is refused
setLastModifyDateDatabaseOrFail(w) ==
    IF w.db.id = 0 THEN w
    ELSE IF ~isValidTimezone(w, w.tz) THEN Reject(w, w.call.id, "Timezone is not valid")
    ELSE IF Marker \notin w.db.names
    THEN createObjectStore(w, Marker, <<Ix(MarkerField, FALSE)>>, FALSE, 0)
    ELSE deleteAllDataObjectStore(w, Marker, 0, "marker")

\* #setLastModifyDateDatabase inserting without cleaning the marker store first
setLastModifyDateDatabaseNoClean(w) ==
    IF w.db.id = 0 THEN w
    ELSE IF ~isValidTimezone(w, w.tz) THEN w
    ELSE IF Marker \notin w.db.names
    THEN createObjectStore(w, Marker, <<Ix(MarkerField, FALSE)>>, FALSE, 0)
    ELSE MarkerInsert(w)

\* #setLastModifyDateDatabase up to its first request (l.869-892): create the
\* marker store when the handle does not list it, else clean it. Its
\* rejections (l.873, l.883) go to a promise nobody listens to.
setLastModifyDateDatabase(w) ==
    IF w.db.id = 0 THEN w
    ELSE IF ~isValidTimezone(w, w.tz) THEN w
    ELSE IF Marker \notin w.db.names
    THEN createObjectStore(w, Marker, <<Ix(MarkerField, FALSE)>>, FALSE, 0)
    ELSE deleteAllDataObjectStore(w, Marker, 0, "marker")

\* ------------------------------------------------------ index renames
\* objData[newName] = objData[oldName]; delete objData[oldName] (l.489-493)
MoveField(rec, r) ==
    IF r.oldName \in DOMAIN rec
    THEN [f \in ((DOMAIN rec) \cup {r.newName}) \ {r.oldName} |->
             IF f = r.newName THEN rec[r.oldName] ELSE rec[f]]
    ELSE rec

\* changeIndexObjectStore's rewrite of the snapshot (l.485-494): each rule in
\* turn, over every record.
RECURSIVE changeIndexData(_, _)
changeIndexData(renames, data) ==
    IF renames = <<>> THEN data
    ELSE changeIndexData(Tail(renames),
                         [i \in 1..Len(data) |-> MoveField(data[i], Head(renames))])

\* addIndexObjectStore (l.441-446) and deleteIndexObjectStore (l.447-451)
addIndexObjectStore(idx, n, u) == IF n \in DOMAIN idx THEN idx ELSE MapPut(idx, n, u)
deleteIndexObjectStore(idx, n) == IF n \in DOMAIN idx THEN MapDel(idx, n) ELSE idx

\* createIndex with unique: true fails, and aborts the upgrade, when the
\* store already holds two records with the same value on the field.
IndexFails(st, idx, n, u) == u /\ n \notin DOMAIN idx /\ Dup(st.recs, n)

\* [idx, fails] after the adds then the removes of the first upgrade (l.463-464)
RECURSIVE ApplyAdds(_, _, _)
ApplyAdds(st, acc, adds) ==
    IF adds = <<>> THEN acc
    ELSE LET a == Head(adds) IN
         ApplyAdds(st, [idx |-> addIndexObjectStore(acc.idx, a.name, a.unique),
                        fails |-> acc.fails \/ IndexFails(st, acc.idx, a.name, a.unique)],
                   Tail(adds))

RECURSIVE ApplyRemoves(_, _)
ApplyRemoves(idx, removes) ==
    IF removes = <<>> THEN idx
    ELSE ApplyRemoves(deleteIndexObjectStore(idx, Head(removes)), Tail(removes))

\* Renames that create the new index and keep the old one
RECURSIVE ApplyRenamesKeepingOld(_, _, _)
ApplyRenamesKeepingOld(st, acc, renames) ==
    IF renames = <<>> THEN acc
    ELSE LET r == Head(renames) IN
         ApplyRenamesKeepingOld(st,
             [idx |-> addIndexObjectStore(acc.idx, r.newName, r.unique),
              fails |-> acc.fails \/ IndexFails(st, acc.idx, r.newName, r.unique)],
             Tail(renames))

\* [idx, fails] after the index edits of the second upgrade (l.495-496)
RECURSIVE ApplyRenames(_, _, _)
ApplyRenames(st, acc, renames) ==
    IF renames = <<>> THEN acc
    ELSE LET r == Head(renames) IN
         ApplyRenames(st,
             [idx |-> deleteIndexObjectStore(
                          addIndexObjectStore(acc.idx, r.newName, r.unique), r.oldName),
              fails |-> acc.fails \/ IndexFails(st, acc.idx, r.newName, r.unique)],
             Tail(renames))

\* The rename check of the first upgrade (l.458-462)
RenameRefused(idx, renames) ==
    \E i \in 1..Len(renames) :
        renames[i].oldName \notin DOMAIN idx \/ renames[i].newName \in DOMAIN idx

HasDupNames(indexes) ==
    \E i, j \in 1..Len(indexes) : i < j /\ indexes[i].name = indexes[j].name

\* --------------------------------------------- onupgradeneeded handlers
Abort(w) == [w EXCEPT !.upg.aborted = TRUE]
SetHandle(w, c, v) == [w EXCEPT !.db = [id |-> c, names |-> DOMAIN w.stores], !.dbv = v]

\* initialize (l.42-49)
InitUpgradeNeeded(w, req, c) ==
    Resolve(setLastModifyDateDatabase(SetHandle(w, c, w.ver)), req.owner, "initialized")

\* createObjectStore (l.133-141): IDBDatabase.createObjectStore throws when the
\* store exists, createIndex when the index name is already used.
CreateUpgradeNeeded(w, req, c) ==
    LET w1 == SetHandle(w, c, req.ver)
        st == [EmptyStore EXCEPT !.idx =
                 [n \in {req.arg.idx[i].name : i \in 1..Len(req.arg.idx)} |->
                     (CHOOSE i \in 1..Len(req.arg.idx) : req.arg.idx[i].name = n) \in
                         {i \in 1..Len(req.arg.idx) : req.arg.idx[i].unique}]]
    IN IF req.store \in DOMAIN w.stores \/ HasDupNames(req.arg.idx) THEN Abort(w1)
       ELSE [w1 EXCEPT !.stores = MapPut(@, req.store, st)]

\* deleteObjectStore (l.167-172): IDBDatabase.deleteObjectStore throws when the
\* store is absent.
DeleteUpgradeNeeded(w, req, c) ==
    LET w1 == SetHandle(w, c, req.ver) IN
    IF req.store \notin DOMAIN w.stores THEN Abort(w1)
    ELSE [w1 EXCEPT !.stores = MapDel(@, req.store)]

\* updateStructureObjectStore, first upgrade (l.453-465): transaction.objectStore
\* throws, before the fields are set, when the store is absent.
Upd1UpgradeNeeded(w, req, c) ==
    IF req.store \notin DOMAIN w.stores THEN Abort(w)
    ELSE LET w1 == SetHandle(w, c, req.ver)
             st == w.stores[req.store]
             a == ApplyAdds(st, [idx |-> st.idx, fails |-> FALSE], req.arg.adds)
         IN IF RenameRefused(st.idx, req.arg.renames)
            THEN Reject(w1, req.owner, "rename refused")
            ELSE IF a.fails THEN Abort(w1)
            ELSE [w1 EXCEPT !.stores[req.store].idx = ApplyRemoves(a.idx, req.arg.removes)]

\* updateStructureObjectStore, second upgrade (l.476-508)
Upd2UpgradeNeeded(w, req, c) ==
    IF req.store \notin DOMAIN w.stores THEN Abort(w)
    ELSE LET w1 == SetHandle(w, c, req.ver)
             st == w.stores[req.store]
             a == ApplyRenames(st, [idx |-> st.idx, fails |-> FALSE], req.arg.renames)
             data == changeIndexData(req.arg.renames, req.data)
             w2 == [w1 EXCEPT !.stores[req.store].idx = a.idx]
             w3 == IF data = <<>> THEN Resolve(w2, req.owner, "updated")
                   ELSE [w2 EXCEPT !.temp = data]
         IN IF a.fails THEN Abort(w3) ELSE w3

UpgradeNeeded(w, req, c) ==
    IF ~req.armed THEN w
    ELSE CASE req.kind = "init" -> InitUpgradeNeeded(w, req, c)
           [] req.kind = "create" -> CreateUpgradeNeeded(w, req, c)
           [] req.kind = "delete" -> DeleteUpgradeNeeded(w, req, c)
           [] req.kind = "upd1" -> Upd1UpgradeNeeded(w, req, c)
           [] req.kind = "upd2" -> Upd2UpgradeNeeded(w, req, c)

\* ------------------------------------------- onsuccess / onerror handlers
\* updateStructureObjectStore, first request.onsuccess (l.466-471): the second
\* open request is made at once; its handlers are attached, and the handle
\* closed, only when selectAllDataObjectStore has answered. A rejection of
\* selectAllDataObjectStore is caught by nobody.
Upd1Success(w, req) ==
    LET w1 == OpenRequest(w, [req EXCEPT !.kind = "upd2", !.ver = w.dbv + 1,
                                         !.armed = FALSE])
        w2 == selectAllDataObjectStore(w1, req.store, <<>>, 0, "upd")
    IN IF w2.txQ = w1.txQ THEN w2
       ELSE [w2 EXCEPT !.txQ[Len(w2.txQ)].owner = req.owner]

\* updateStructureObjectStore, second request.onsuccess (l.509-521)
Upd2Success(w, req) == deleteAllDataObjectStore(w, req.store, req.owner, "upd")

\* The database handed to request.onsuccess is kept by initialize alone
\* (l.51-57); the other handlers leave the new connection unreferenced.
OnSuccess(w, req, c) ==
    IF ~req.armed THEN w
    ELSE CASE req.kind = "init" ->
                Resolve(SetHandle(w, c, w.ver), req.owner, "initialized")
           [] req.kind = "create" ->
                LET w1 == IF req.setLM THEN setLastModifyDateDatabase(w) ELSE w
                    w2 == Resolve(w1, req.owner, "created")
                IN IF req.owner = 0 THEN MarkerInsert(w2) ELSE w2
           [] req.kind = "delete" ->
                Resolve(setLastModifyDateDatabase(w), req.owner, "deleted")
           [] req.kind = "upd1" -> Upd1Success(w, req)
           [] req.kind = "upd2" -> Upd2Success(w, req)

\* Every request.onerror rejects with the host's message.
OnError(w, req) == IF req.armed THEN Reject(w, req.owner, "host error") ELSE w

\* --------------------------------------------------- host: open requests
\* The version an open request asks for (0: none given, the current one, or 1
\* for a database that does not exist).
AskedVersion(w, req) ==
    IF req.ver # 0 THEN req.ver ELSE IF w.ver = 0 THEN 1 ELSE w.ver

\* The upgrade transaction starts once every other connection is closed; it
\* runs onupgradeneeded. An upgrade that aborts leaves the database as it was
\* and its connection closed.
StartUpgrade(w) ==
    LET req == Head(w.openQ)
        c == w.nextConn
        w1 == [w EXCEPT !.openQ = Tail(@), !.nextConn = c + 1, !.conns = {c},
                        !.ver = AskedVersion(w, req),
                        !.upg = [conn |-> c, req |-> req, aborted |-> FALSE]]
        w2 == UpgradeNeeded(w1, req, c)
        w3 == IF w2.upg.aborted
              THEN [w2 EXCEPT !.ver = w.ver, !.stores = w.stores]
              ELSE w2
    IN IF w3.db.id = c THEN [w3 EXCEPT !.db.names = DOMAIN w3.stores] ELSE w3

\* The upgrade transaction has finished: error when it aborted or when the
\* connection was closed meanwhile, else success.
FinishUpgrade(w) ==
    LET c == w.upg.conn
        req == w.upg.req
        w1 == [w EXCEPT !.upg = NoUpg]
    IN IF w.upg.aborted \/ c \in w.closing
       THEN OnError([w1 EXCEPT !.conns = @ \ {c}, !.closing = @ \ {c}], req)
       ELSE OnSuccess(w1, req, c)

\* The request at the head of the queue has to wait for connections to
\* close: an open that upgrades, or the deletion of the database.
MustWait(w) ==
    /\ w.openQ # <<>>
    /\ w.upg.conn = 0
    /\ w.conns # {}
    /\ \/ Head(w.openQ).kind = "deleteDb" /\ Head(w.openQ).store = DatabaseName
       \/ Head(w.openQ).kind # "deleteDb" /\ AskedVersion(w, Head(w.openQ)) > w.ver

\* The host fires blocked at the request: no request of the class has an
\* onblocked handler (l.133-146, l.77-79), so nothing runs.
Blocked(w) == [w EXCEPT !.openQ[1].blocked = TRUE]

\* indexedDB.deleteDatabase answered: the database is gone with its stores;
\* request.onsuccess (l.79).
DeleteDatabase(w) ==
    LET req == Head(w.openQ)
        w1 == [w EXCEPT !.openQ = Tail(@)]
        w2 == IF req.store = DatabaseName
              THEN [w1 EXCEPT !.ver = 0, !.stores = <<>>]
              ELSE [w1 EXCEPT !.others = @ \ {req.store}]
    IN IF req.armed THEN Resolve(w2, req.owner, "database deleted") ELSE w2

\* An open at the current version connects without an upgrade; an open below
\* it fails with VersionError.
OpenNoUpgrade(w) ==
    LET req == Head(w.openQ)
        c == w.nextConn
    IN IF AskedVersion(w, req) < w.ver
       THEN OnError([w EXCEPT !.openQ = Tail(@)], req)
       ELSE OnSuccess([w EXCEPT !.openQ = Tail(@), !.nextConn = c + 1,
                               !.conns = @ \cup {c}], req, c)

\* ------------------------------------------------- host: transactions
\* What runs when a transaction's request has succeeded or failed.
TxDone(w, tx, ok, data) ==
    CASE tx.cont = "marker" -> MarkerInsert(w)
      [] tx.cont = "none" -> w
      [] tx.cont = "user" ->
            \* l.200, l.234, l.765: the promise's value is a message
            IF ok THEN Resolve(w, tx.owner, "done")
            ELSE Reject(w, tx.owner, "ConstraintError")
      [] tx.cont = "selectAll" ->
            \* l.379-398
            ResolveWith(w, tx.owner, "records",
                IF tx.q.fields = <<>> THEN data
                ELSE SelectSeq([i \in 1..Len(data) |-> Project(data[i], tx.q.fields)],
                               LAMBDA r : DOMAIN r # {}))
      [] tx.cont = "lastModify" ->
            \* l.794-798
            IF data = <<>> THEN ResolveWith(w, tx.owner, "null", <<>>)
            ELSE ResolveWith(w, tx.owner, "date", <<data[Len(data)].lastModifyDate>>)
      [] tx.cont = "select" ->
            ResolveWith(w, tx.owner, data.kind,
                        IF data.kind = "record" THEN <<data.val>> ELSE <<>>)
      [] tx.cont = "selectMany" ->
            \* l.331: an entry without a match rejects the call
            IF \E i \in 1..Len(data) : data[i].kind = "undefined"
            THEN Reject(w, tx.owner, "value not found")
            ELSE ResolveWith(w, tx.owner, "records", data)
      [] tx.cont = "update" ->
            \* l.576; l.581 is a handler no event calls
            IF ok THEN w ELSE Reject(w, tx.owner, "ConstraintError")
      [] tx.cont = "delete" ->
            \* l.618-620; l.637 is a handler no event calls
            IF tx.q.all THEN w
            ELSE IF data THEN Resolve(w, tx.owner, "deleted")
            ELSE Reject(w, tx.owner, "value not found")
      [] tx.cont = "deleteMany" ->
            IF data = "" THEN Resolve(w, tx.owner, "deleted") ELSE Reject(w, tx.owner, data)
      [] tx.cont = "strip" ->
            \* l.748-761, then l.764
            LET rest == SelectSeq([i \in 1..Len(data) |-> Strip(data[i], tx.q.fields)],
                                  LAMBDA r : DOMAIN r # {})
                w1 == IF Refusal(w, tx.store) # "" THEN Reject(w, tx.owner, Refusal(w, tx.store))
                      ELSE BeginTx(w, tx.store, "clear", rest, tx.owner, "stripped")
            IN Resolve(w1, tx.owner, "removed")
      [] tx.cont = "stripped" ->
            \* l.758: a rejection reaches a promise that is already settled
            insertMultipleDataObjectStore(w, tx.store, tx.recs, tx.owner, "none")
      [] tx.cont = "upd" /\ tx.kind = "getAll" ->
            \* l.471-475 and the handlers of l.476-521
            LET w1 == Close(w) IN
            [w1 EXCEPT !.openQ = [i \in 1..Len(@) |->
                IF @[i].kind = "upd2" /\ @[i].owner = tx.owner /\ ~@[i].armed
                THEN [@[i] EXCEPT !.armed = TRUE, !.data = data] ELSE @[i]]]
      [] tx.cont = "upd" /\ tx.kind = "clear" ->
            \* l.512-519
            insertMultipleDataObjectStore(w, tx.store, w.temp, tx.owner, "upd")
      [] tx.cont = "upd" /\ tx.kind = "addMany" ->
            IF ok THEN Resolve([w EXCEPT !.temp = <<>>], tx.owner, "updated")
            ELSE Reject(w, tx.owner, "ConstraintError")

\* A transaction runs: its requests take effect together or, when one fails,
\* not at all; a closing connection closes with its last transaction.
RunTx(w, i) ==
    LET tx == w.txQ[i]
        st == w.stores[tx.store]
        r == CASE tx.kind = "clear" -> [ok |-> TRUE, st |-> ClearStore(st)]
               [] tx.kind \in {"add", "addMany"} -> AddAll(st, tx.recs)
               [] tx.kind \in {"getAll", "idle", "select", "selectMany"} ->
                    [ok |-> TRUE, st |-> st]
               [] tx.kind = "update" -> UpdateFrom(st, tx.q, 1)
               [] tx.kind = "delete" -> [ok |-> TRUE, st |-> DeleteMatches(st, tx.q)]
               [] tx.kind = "deleteMany" ->
                    [ok |-> TRUE, st |-> DeleteMany(st, tx.q.list).st]
        out == CASE tx.kind = "select" -> SelectOne(st, tx.q)
                 [] tx.kind = "selectMany" ->
                      [k \in 1..Len(tx.q.list) |-> SelectOne(st, tx.q.list[k])]
                 [] tx.kind = "delete" -> FirstMatch(st, tx.q.index, tx.q.value) # 0
                 [] tx.kind = "deleteMany" -> DeleteMany(st, tx.q.list).err
                 [] OTHER -> Values(st)
        w1 == [w EXCEPT !.stores[tx.store] = IF r.ok THEN r.st ELSE st,
                        !.txQ = [j \in 1..(Len(@) - 1) |-> IF j < i THEN @[j] ELSE @[j + 1]]]
        w2 == IF tx.conn \in w1.closing /\ ~HasTx(w1, tx.conn)
              THEN [w1 EXCEPT !.conns = @ \ {tx.conn}, !.closing = @ \ {tx.conn}]
              ELSE w1
    IN TxDone(w2, tx, r.ok, out)

\* initialize without a version (l.31-59)
initialize(w, databaseName, owner) ==
    IF w.db.id # 0 THEN Resolve(w, owner, "already")
    ELSE IF ~IsString(databaseName) THEN Reject(w, owner, "not a string")
    ELSE OpenRequest(w, [NoReq EXCEPT !.kind = "init", !.owner = owner, !.armed = TRUE])

\* delete (l.67-81): the request names the instance's database whenever a
\* handle is kept; the handle is not closed, and only error and success have
\* handlers.
delete(w, databaseName, owner) ==
    IF w.db.id # 0
    THEN OpenRequest(w, [NoReq EXCEPT !.kind = "deleteDb", !.store = DatabaseName,
                                      !.owner = owner, !.armed = TRUE])
    ELSE IF IsString(databaseName) /\ databaseName # ""
    THEN OpenRequest(w, [NoReq EXCEPT !.kind = "deleteDb", !.store = databaseName,
                                      !.owner = owner, !.armed = TRUE])
    ELSE Reject(w, owner, "not valid")

\* ------------------------------------------------------------ the caller
\* The names the caller passes: a string, or the number 7.
DatabaseNames == {DatabaseName} \cup NonStrings
\* setTimezoneLastModifyDate(timezone): a zone, and a name that is none
ZoneNames == {DefaultZone, "UTC", "Mars/Phobos"}
\* delete(databaseName): also another database's name, and "" for no name
DeleteNames == {DatabaseName, "", "7"} \cup OtherDatabases
StoreNames == UserStores \cup NonStrings

IndexLists ==
    { <<>>, <<Ix("a", FALSE)>>, <<Ix("a", TRUE)>>, <<Ix("a", FALSE), Ix("b", TRUE)>>,
      <<Ix("a", FALSE), Ix("a", FALSE)>>, <<Ix(" ", FALSE)>>, <<Ix("7", FALSE)>> }

Changes ==
    { [NoArg EXCEPT !.adds = <<Ix("b", TRUE)>>],
      [NoArg EXCEPT !.removes = <<"a">>],
      [NoArg EXCEPT !.renames = <<Rn("a", "b", FALSE)>>],
      [NoArg EXCEPT !.renames = <<Rn("a", "b", TRUE)>>],
      [NoArg EXCEPT !.renames = <<Rn("a", "b", FALSE), Rn("a", "c", FALSE)>>],
      [NoArg EXCEPT !.adds = <<Ix("c", FALSE)>>, !.renames = <<Rn("b", "a", FALSE)>>],
      [NoArg EXCEPT !.removes = <<"7">>] }

Records ==
    { [a |-> 1, c |-> 2], [a |-> 1], [b |-> 2], [a |-> 2, b |-> 1] }

RecordLists ==
    { <<>>, <<[a |-> 1, c |-> 2], [a |-> 1]>>, <<[a |-> 1, c |-> 2], [b |-> 2]>>,
      <<[b |-> 2], [a |-> 2, b |-> 1]>>, <<[b |-> 1], [a |-> 1, b |-> 1]>> }

Q(index, value) == [NoQuery EXCEPT !.index = index, !.value = value]

\* index, value and the fields to return; "z" is never an index
Selections ==
    { Q("a", 1), [Q("a", 1) EXCEPT !.fields = <<"c">>], Q("a", 3), Q("z", 1),
      [Q("b", 2) EXCEPT !.fields = <<"c">>], Q("7", 1), Q("b", 2) }

SelectionLists ==
    { <<>>, <<Q("a", 1)>>, <<[Q("b", 2) EXCEPT !.fields = <<"c">>], Q("a", 1)>>,
      <<Q("a", 1), Q("a", 3)>>, <<Q("a", 1), Q("z", 1)>>, <<Q("a", 1), Q("7", 1)>> }

FieldLists == { <<>>, <<"c">>, <<" ">>, <<"a", "c">>, <<"7">> }

Updates ==
    { [Q("a", 1) EXCEPT !.newValue = 3, !.change = TRUE],
      [Q("b", 2) EXCEPT !.newValue = 1, !.change = TRUE],
      [Q("a", 1) EXCEPT !.pairs = <<[index |-> "c", value |-> 9]>>],
      [Q("a", 2) EXCEPT !.newValue = 1, !.change = TRUE,
                        !.pairs = <<[index |-> "b", value |-> 2]>>],
      Q("a", 1), [Q("7", 1) EXCEPT !.newValue = 3, !.change = TRUE],
      [Q("a", 1) EXCEPT !.newValue = 1, !.change = TRUE] }

Deletions ==
    { Q("a", 1), [Q("a", 1) EXCEPT !.all = TRUE], Q("a", 3), Q("z", 1),
      [Q("b", 2) EXCEPT !.all = TRUE], Q("7", 1) }

DeletionLists ==
    { <<>>, <<Q("a", 1), Q("a", 3)>>, <<[Q("a", 1) EXCEPT !.all = TRUE], Q("b", 2)>>,
      <<Q("z", 1)>>, <<Q("a", 1), Q("z", 1)>>, <<Q("a", 1), Q("7", 1)>> }

IndexNames == {"a", "z"} \cup NonStrings
IndexNameLists == { <<>>, <<"a", "z">>, <<"a", "7">> }

Quiet == openQ = <<>> /\ txQ = <<>> /\ upg.conn = 0

CanCall == call.st # "pending" /\ opCount < MaxOps

\* The world at the start of a call: a new promise, the clock advanced.
Begin(op, store, arg) ==
    [World EXCEPT !.call = [id |-> opCount + 1, op |-> op, store |-> store, arg |-> arg,
                            st |-> "pending", res |-> "", data |-> <<>>],
                  !.now = opCount + 1]

\* The cached handle and version are those of the database.
InSync == databaseVersion = dbVersion /\ database.id \in conns \ closing

Snapshot == [ver |-> dbVersion, stores |-> stores, quiet |-> Quiet /\ InSync,
             marking |-> \E i \in 1..Len(txQ) : txQ[i].store = Marker]

Initialize ==
    \E databaseName \in DatabaseNames :
        /\ CanCall
        /\ Install(initialize(Begin("initialize", databaseName, NoArg), databaseName,
                               opCount + 1))
        /\ pre' = Snapshot

CreateObjectStore ==
    \E name \in StoreNames, indexes \in IndexLists :
        /\ CanCall
        /\ Install(createObjectStore(Begin("create", name, [NoArg EXCEPT !.idx = indexes]),
                                     name, indexes, TRUE, opCount + 1))
        /\ pre' = Snapshot

DeleteObjectStore ==
    \E name \in StoreNames :
        /\ CanCall
        /\ Install(deleteObjectStore(Begin("delete", name, NoArg), name, opCount + 1))
        /\ pre' = Snapshot

UpdateStructureObjectStore ==
    \E name \in StoreNames, arg \in Changes :
        /\ CanCall
        /\ Install(updateStructureObjectStore(Begin("update", name, arg), name, arg,
                                              opCount + 1))
        /\ pre' = Snapshot

InsertDataObjectStore ==
    \E name \in StoreNames, rec \in Records :
        /\ CanCall
        /\ Install(insertDataObjectStore(Begin("insert", name, [NoArg EXCEPT !.recs = <<rec>>]),
                                         name, rec, opCount + 1, "user"))
        /\ pre' = Snapshot

InsertMultipleDataObjectStore ==
    \E name \in StoreNames, recs \in RecordLists :
        /\ CanCall
        /\ Install(insertMultipleDataObjectStore(
                       Begin("insertMultiple", name, [NoArg EXCEPT !.recs = recs]),
                       name, recs, opCount + 1, "user"))
        /\ pre' = Snapshot

SelectDataObjectStore ==
    \E name \in StoreNames, q \in Selections :
        /\ CanCall
        /\ Install(selectDataObjectStore(Begin("select", name, [NoArg EXCEPT !.q = q]),
                                         name, q, opCount + 1))
        /\ pre' = Snapshot

SelectMultipleDataObjectStore ==
    \E name \in StoreNames, list \in SelectionLists :
        /\ CanCall
        /\ Install(selectMultipleDataObjectStore(
                       Begin("selectMultiple", name, [NoArg EXCEPT !.q.list = list]),
                       name, list, opCount + 1))
        /\ pre' = Snapshot

SelectAllDataObjectStore ==
    \E name \in StoreNames, indexes \in FieldLists :
        /\ CanCall
        /\ Install(selectAllDataObjectStore(
                       Begin("selectAll", name, [NoArg EXCEPT !.q.fields = indexes]),
                       name, indexes, opCount + 1, "selectAll"))
        /\ pre' = Snapshot

UpdateDataObjectStore ==
    \E name \in StoreNames, q \in Updates :
        /\ CanCall
        /\ Install(updateDataObjectStore(Begin("updateData", name, [NoArg EXCEPT !.q = q]),
                                         name, q, opCount + 1))
        /\ pre' = Snapshot

DeleteDataObjectStore ==
    \E name \in StoreNames, q \in Deletions :
        /\ CanCall
        /\ Install(deleteDataObjectStore(Begin("deleteData", name, [NoArg EXCEPT !.q = q]),
                                         name, q, opCount + 1))
        /\ pre' = Snapshot

DeleteMultipleDataObjectStore ==
    \E name \in StoreNames, list \in DeletionLists :
        /\ CanCall
        /\ Install(deleteMultipleDataObjectStore(
                       Begin("deleteMultiple", name, [NoArg EXCEPT !.q.list = list]),
                       name, list, opCount + 1))
        /\ pre' = Snapshot

DeleteAllDataObjectStore ==
    \E name \in StoreNames, indexes \in FieldLists :
        /\ CanCall
        /\ Install(deleteAllFieldsDataObjectStore(
                       Begin("deleteAll", name, [NoArg EXCEPT !.q.fields = indexes]),
                       name, indexes, opCount + 1))
        /\ pre' = Snapshot

CleanObjectStore ==
    \E name \in StoreNames :
        /\ CanCall
        /\ Install(cleanObjectStore(Begin("clean", name, NoArg), name, opCount + 1))
        /\ pre' = Snapshot

GetLastModifyDateDatabase ==
    /\ CanCall
    /\ Install(getLastModifyDateDatabase(Begin("getLastModify", "", NoArg), opCount + 1))
    /\ pre' = Snapshot

IndexExistsInObjectStore ==
    \E name \in StoreNames, indexName \in IndexNames :
        /\ CanCall
        /\ Install(indexExistsInObjectStore(
                       Begin("indexExists", name, [NoArg EXCEPT !.q.index = indexName]),
                       name, indexName, opCount + 1))
        /\ pre' = Snapshot

IndexesExistsInObjectStore ==
    \E name \in StoreNames, indexes \in IndexNameLists :
        /\ CanCall
        /\ Install(indexesExistsInObjectStore(
                       Begin("indexesExists", name, [NoArg EXCEPT !.q.fields = indexes]),
                       name, indexes, opCount + 1))
        /\ pre' = Snapshot

\* The caller sets the time zone between two operations.
SetTimezoneLastModifyDate ==
    \E timezone \in ZoneNames :
        /\ call.st # "pending"
        /\ timezone # timezoneLastModifyDate
        /\ Install(setTimezoneLastModifyDate(World, timezone))
        /\ timezoneLastModifyDate' # timezoneLastModifyDate
        /\ UNCHANGED pre

Delete ==
    \E databaseName \in DeleteNames :
        /\ CanCall
        /\ Install(delete(Begin("deleteDatabase", databaseName, NoArg), databaseName,
                           opCount + 1))
        /\ pre' = Snapshot

\* ------------------------------------------------------------- the host
\* The blocked event, once per request
HostBlocked ==
    /\ MustWait(World)
    /\ ~Head(openQ).blocked
    /\ Install(Blocked(World))
    /\ UNCHANGED pre

\* The instance's database is deleted once no connection to it is open;
\* another database has no connection.
HostDeleteDatabase ==
    /\ upg.conn = 0
    /\ openQ # <<>>
    /\ Head(openQ).kind = "deleteDb"
    /\ Head(openQ).store = DatabaseName => conns = {}
    /\ Install(DeleteDatabase(World))
    /\ UNCHANGED pre

\* Another tab opens the database at its version, and closes its connection.
OtherOpens ==
    /\ dbVersion > 0
    /\ upg.conn = 0
    /\ openQ = <<>>
    /\ OtherTab \notin conns
    /\ conns' = conns \cup {OtherTab}
    /\ UNCHANGED <<dbVersion, stores, closing, nextConn, others, zones, openQ, txQ, upg,
                   database, databaseVersion, tempNewArrayObjData,
                   timezoneLastModifyDate, call, pre, opCount>>

OtherCloses ==
    /\ OtherTab \in conns
    /\ conns' = conns \ {OtherTab}
    /\ UNCHANGED <<dbVersion, stores, closing, nextConn, others, zones, openQ, txQ, upg,
                   database, databaseVersion, tempNewArrayObjData,
                   timezoneLastModifyDate, call, pre, opCount>>

HostUpgrade ==
    /\ upg.conn = 0
    /\ openQ # <<>>
    /\ Head(openQ).kind # "deleteDb"
    /\ AskedVersion(World, Head(openQ)) > dbVersion
    /\ conns = {}
    /\ Install(StartUpgrade(World))
    /\ UNCHANGED pre

HostFinishUpgrade ==
    /\ upg.conn # 0
    /\ Install(FinishUpgrade(World))
    /\ UNCHANGED pre

HostOpen ==
    /\ upg.conn = 0
    /\ openQ # <<>>
    /\ Head(openQ).kind # "deleteDb"
    /\ AskedVersion(World, Head(openQ)) <= dbVersion
    /\ Install(OpenNoUpgrade(World))
    /\ UNCHANGED pre

\* Transactions on the same store run in the order they were created.
HostTx ==
    \E i \in 1..Len(txQ) :
        /\ \A j \in 1..(i - 1) : txQ[j].store # txQ[i].store
        /\ Install(RunTx(World, i))
        /\ UNCHANGED pre

Init ==
    /\ dbVersion = 0
    /\ stores = <<>>
    /\ conns = {}
    /\ closing = {}
    /\ nextConn = 1
    /\ others = OtherDatabases
    /\ zones = Zones
    /\ timezoneLastModifyDate = DefaultZone
    /\ openQ = <<>>
    /\ txQ = <<>>
    /\ upg = NoUpg
    /\ database = NoHandle
    /\ databaseVersion = 0
    /\ tempNewArrayObjData = <<>>
    /\ call = [id |-> 0, op |-> "none", store |-> "", arg |-> NoArg, st |-> "idle",
               res |-> "", data |-> <<>>]
    /\ pre = [ver |-> 0, stores |-> <<>>, quiet |-> FALSE, marking |-> FALSE]
    /\ opCount = 0

Next ==
    \/ Initialize
    \/ CreateObjectStore
    \/ DeleteObjectStore
    \/ UpdateStructureObjectStore
    \/ InsertDataObjectStore
    \/ InsertMultipleDataObjectStore
    \/ HostUpgrade
    \/ HostFinishUpgrade
    \/ HostOpen
    \/ HostTx

Spec == Init /\ [][Next]_vars

\* --------------------------------------------- the record operations alone
\* The caller has awaited initialize() on a new database and then
\* createObjectStore("A", [{name: "a"}, {name: "b", unique: true}]) and let
\* the marker update finish: the state Spec reaches by these two calls. From
\* here it calls record operations only.
InitCrud ==
    /\ dbVersion = 3
    /\ stores = [x \in {Marker, "A"} |->
                    IF x = "A"
                    THEN [idx |-> [f \in {"a", "b"} |-> f = "b"], recs |-> <<>>, nextKey |-> 1]
                    ELSE [idx |-> [f \in {MarkerField} |-> FALSE],
                          recs |-> <<[key |-> 2, val |-> [lastModifyDate |-> 2]]>>,
                          nextKey |-> 3]]
    /\ conns = {3}
    /\ closing = {}
    /\ nextConn = 4
    /\ others = OtherDatabases
    /\ zones = Zones
    /\ timezoneLastModifyDate = DefaultZone
    /\ openQ = <<>>
    /\ txQ = <<>>
    /\ upg = NoUpg
    /\ database = [id |-> 3, names |-> {Marker, "A"}]
    /\ databaseVersion = 3
    /\ tempNewArrayObjData = <<>>
    /\ call = [id |-> 2, op |-> "create", store |-> "A",
               arg |-> [NoArg EXCEPT !.idx = <<Ix("a", FALSE), Ix("b", TRUE)>>],
               st |-> "resolved", res |-> "created", data |-> <<>>]
    /\ pre = [ver |-> 2,
              stores |-> [x \in {Marker} |->
                             [idx |-> [f \in {MarkerField} |-> FALSE],
                              recs |-> <<[key |-> 1, val |-> [lastModifyDate |-> 1]]>>,
                              nextKey |-> 2]],
              quiet |-> TRUE, marking |-> FALSE]
    /\ opCount = 2

NextCrud ==
    \/ InsertDataObjectStore
    \/ InsertMultipleDataObjectStore
    \/ SelectDataObjectStore
    \/ SelectMultipleDataObjectStore
    \/ SelectAllDataObjectStore
    \/ UpdateDataObjectStore
    \/ DeleteDataObjectStore
    \/ DeleteMultipleDataObjectStore
    \/ DeleteAllDataObjectStore
    \/ CleanObjectStore
    \/ GetLastModifyDateDatabase
    \/ IndexExistsInObjectStore
    \/ IndexesExistsInObjectStore
    \/ HostTx

SpecCrud == InitCrud /\ [][NextCrud]_vars

\* ------------------------------------- the database among tabs and others
\* The caller opens the database, creates and deletes containers, reads the
\* modification date and deletes databases, while another tab opens and
\* closes a connection of its own.
NextTabs ==
    \/ Initialize
    \/ CreateObjectStore
    \/ DeleteObjectStore
    \/ GetLastModifyDateDatabase
    \/ Delete
    \/ OtherOpens
    \/ OtherCloses
    \/ HostBlocked
    \/ HostDeleteDatabase
    \/ HostUpgrade
    \/ HostFinishUpgrade
    \/ HostOpen
    \/ HostTx

SpecTabs == Init /\ [][NextTabs]_vars

\* ------------------------------------------------- hosts and time zones
\* The host may lack the time zone data of the default zone: then
\* Intl.DateTimeFormat throws for it, and the zone the instance starts with
\* is one its host cannot format.
InitZone ==
    /\ dbVersion = 0
    /\ stores = <<>>
    /\ conns = {}
    /\ closing = {}
    /\ nextConn = 1
    /\ others = OtherDatabases
    /\ zones \in {Zones, {"UTC"}}
    /\ timezoneLastModifyDate = DefaultZone
    /\ openQ = <<>>
    /\ txQ = <<>>
    /\ upg = NoUpg
    /\ database = NoHandle
    /\ databaseVersion = 0
    /\ tempNewArrayObjData = <<>>
    /\ call = [id |-> 0, op |-> "none", store |-> "", arg |-> NoArg, st |-> "idle",
               res |-> "", data |-> <<>>]
    /\ pre = [ver |-> 0, stores |-> <<>>, quiet |-> FALSE, marking |-> FALSE]
    /\ opCount = 0

NextZone ==
    \/ Initialize
    \/ CreateObjectStore
    \/ DeleteObjectStore
    \/ SetTimezoneLastModifyDate
    \/ HostUpgrade
    \/ HostFinishUpgrade
    \/ HostOpen
    \/ HostTx

SpecZone == InitZone /\ [][NextZone]_vars

\* ================================================================ claims
Structural == {"create", "delete", "update"}
IndexSet(st) == DOMAIN st.idx

\* The current call has changed the schema: its store was created, or
\* deleted, or has other indexes than at the call.
TookEffect ==
    CASE call.op = "create" ->
            call.store \notin DOMAIN pre.stores /\ call.store \in DOMAIN stores
      [] call.op = "delete" ->
            call.store \in DOMAIN pre.stores /\ call.store \notin DOMAIN stores
      [] call.op = "update" ->
            /\ call.store \in DOMAIN pre.stores
            /\ call.store \in DOMAIN stores
            /\ IndexSet(stores[call.store]) # IndexSet(pre.stores[call.store])
      [] OTHER -> FALSE

\* A structural operation, called when nothing was pending and the cached
\* handle and version were those of the database, has resolved and taken
\* effect, and everything it started has finished.
StructuralDone ==
    /\ Quiet
    /\ pre.quiet
    /\ call.op \in Structural
    /\ call.st = "resolved"
    /\ TookEffect

\* C1: a structural operation that takes effect leaves the version exactly 1
\* higher than before the call, every bump it causes counted.
C1_VersionPlusOne == StructuralDone => dbVersion = pre.ver + 1

\* The store of the current call, as it was at the call, held records.
PreNonEmpty ==
    /\ call.store \in DOMAIN pre.stores
    /\ pre.stores[call.store].recs # <<>>

SameAsBefore ==
    /\ dbVersion = pre.ver
    /\ call.store \in DOMAIN stores
    /\ IndexSet(stores[call.store]) = IndexSet(pre.stores[call.store])
    /\ Values(stores[call.store]) = Values(pre.stores[call.store])

\* C2: updateStructureObjectStore with renames on a non-empty container is
\* all-or-nothing: when it fails after its rename check has passed, the
\* records, the index set and the version are those of before the call.
C2_AllOrNothing ==
    ( /\ Quiet
      /\ pre.quiet
      /\ call.op = "update"
      /\ call.st = "rejected"
      /\ call.arg.renames # <<>>
      /\ PreNonEmpty
      /\ ~RenameRefused(pre.stores[call.store].idx, call.arg.renames) )
    => SameAsBefore

\* C3: updateStructureObjectStore with a rename whose oldName is no index, or
\* whose newName is one, rejects and changes nothing: once all its callbacks
\* have run, version, index set and records are those of before the call.
C3_RefusedRenameChangesNothing ==
    ( /\ Quiet
      /\ pre.quiet
      /\ call.op = "update"
      /\ call.store \in DOMAIN pre.stores
      /\ RenameRefused(pre.stores[call.store].idx, call.arg.renames) )
    => (call.st = "rejected" /\ SameAsBefore)

\* The store has exactly the indexes asked for, each with its uniqueness.
HasIndexes(st, indexes) ==
    /\ IndexSet(st) = {indexes[i].name : i \in 1..Len(indexes)}
    /\ \A i \in 1..Len(indexes) : st.idx[indexes[i].name] = indexes[i].unique

\* C4: when createObjectStore resolves as created, the container exists with
\* exactly the requested indexes, whatever was awaited before it.
C4_CreatedExists ==
    (call.op = "create" /\ call.st = "resolved" /\ call.res = "created")
    => (call.store \in DOMAIN stores /\ HasIndexes(stores[call.store], call.arg.idx))

\* The step is a call of operation op.
Calls(op) == call'.id # call.id /\ call'.op = op

HostUnchanged ==
    UNCHANGED <<dbVersion, stores, conns, closing, nextConn, openQ, txQ, upg>>

WellFormed(indexes) ==
    \A i \in 1..Len(indexes) : IsString(indexes[i].name) /\ ~IsBlank(indexes[i].name)

\* C5: createObjectStore, with well-formed index specs, for a container that
\* exists resolves as "already exists" and changes neither the version, the
\* containers, their indexes and records, nor the host's pending work.
C5_CreateExistingIsNoop ==
    [][ (Calls("create") /\ call'.store \in DOMAIN stores /\ WellFormed(call'.arg.idx))
        => (call'.st = "resolved" /\ call'.res = "exists" /\ HostUnchanged) ]_vars

C5_Witness ==
    /\ call.op = "create"
    /\ call.res = "exists"
    /\ call.store \in DOMAIN pre.stores
    /\ stores = pre.stores

\* C6 (as amended): deleteObjectStore for a container absent from the
\* database rejects, and changes neither version nor schema nor the host's
\* pending work.
C6_DeleteAbsentRejects ==
    [][ (Calls("delete") /\ call'.store \notin DOMAIN stores)
        => (call'.st = "rejected" /\ HostUnchanged) ]_vars

\* C6 (as claimed): deleteObjectStore for a container absent from an
\* initialized database does not reject.
C6_DeleteAbsentNoError ==
    [][ (Calls("delete") /\ call'.store \notin DOMAIN stores /\ database.id # 0)
        => call'.st # "rejected" ]_vars

C6_Witness ==
    /\ call.op = "delete"
    /\ call.st = "rejected"
    /\ call.res = "no such store"
    /\ call.store \notin DOMAIN pre.stores
    /\ database.id # 0
    /\ stores = pre.stores /\ dbVersion = pre.ver

\* C7: the modification-marker container never holds more than one record.
C7_OneMarker == Marker \in DOMAIN stores => Len(stores[Marker].recs) <= 1

\* Two structural operations back to back: the second was called while the
\* marker update of the first was pending, and its own marker is written.
C7_Witness ==
    /\ Quiet
    /\ pre.marking
    /\ call.op \in {"create", "delete"}
    /\ call.st = "resolved"
    /\ call.res # "exists"
    /\ Marker \in DOMAIN pre.stores
    /\ Len(stores[Marker].recs) = 1
    /\ stores[Marker].recs[1].val.lastModifyDate = call.id

\* C8: every successful structural change writes the marker: once it has
\* finished, a marker record written by it exists.
C8_MarkerWritten ==
    StructuralDone =>
        /\ Marker \in DOMAIN stores
        /\ \E i \in 1..Len(stores[Marker].recs) :
               stores[Marker].recs[i].val.lastModifyDate = call.id

\* The record a rename rule list makes of a record: rule by rule, the value
\* at oldName goes to newName and oldName is dropped; other fields stay.
RECURSIVE Renamed(_, _)
Renamed(rec, renames) ==
    IF renames = <<>> THEN rec
    ELSE LET r == Head(renames)
             moved == IF r.oldName \in DOMAIN rec
                      THEN MapDel(MapPut(rec, r.newName, rec[r.oldName]), r.oldName)
                      ELSE rec
         IN Renamed(moved, Tail(renames))

Schema == [n \in DOMAIN stores |-> stores[n].idx]

\* C9: no step of a caller that uses record operations only (insert,
\* insertMultiple, select, selectMultiple, selectAll, update, delete,
\* deleteMultiple, deleteAll, clean, indexExists, indexesExists,
\* getLastModifyDateDatabase), and no step of a transaction they start,
\* changes the database version, the set of object stores or the indexes of
\* an object store, or asks the host to open the database.
C9_RecordOpsKeepSchema ==
    [][dbVersion' = dbVersion /\ Schema' = Schema /\ openQ' = openQ]_vars

\* Two record operations have run and the records of "A" are no longer those
\* the first one wrote.
C9_Witness ==
    /\ Quiet
    /\ opCount = MaxOps
    /\ call.st = "resolved"
    /\ call.op \in {"deleteAll", "clean", "deleteData", "deleteMultiple"}
    /\ pre.stores["A"].recs # <<>>
    /\ stores["A"].recs # pre.stores["A"].recs

\* C10: after a successful updateStructureObjectStore with renames on a
\* container that held records at the call, the records are those of before
\* the call, each renamed, in the same order.
C10_RenamedInOrder ==
    (call.op = "update" /\ call.st = "resolved" /\ call.arg.renames # <<>> /\ PreNonEmpty)
    => /\ call.store \in DOMAIN stores
       /\ Values(stores[call.store]) =
              [i \in 1..Len(pre.stores[call.store].recs) |->
                  Renamed(pre.stores[call.store].recs[i].val, call.arg.renames)]

\* The call has an argument of the wrong type: a name, an index name or a
\* field name that is not a string.
WrongType(c) ==
    \/ ~IsString(c.store)
    \/ \E i \in 1..Len(c.arg.idx) : ~IsString(c.arg.idx[i].name)
    \/ \E i \in 1..Len(c.arg.adds) : ~IsString(c.arg.adds[i].name)
    \/ ~AllStrings(c.arg.removes)
    \/ \E i \in 1..Len(c.arg.renames) :
           ~IsString(c.arg.renames[i].oldName) \/ ~IsString(c.arg.renames[i].newName)
    \/ ~IsString(c.arg.q.index)
    \/ ~AllStrings(c.arg.q.fields)
    \/ \E i \in 1..Len(c.arg.q.pairs) : ~IsString(c.arg.q.pairs[i].index)
    \/ \E i \in 1..Len(c.arg.q.list) :
           ~IsString(c.arg.q.list[i].index) \/ ~AllStrings(c.arg.q.list[i].fields)

\* C11: a call of any public operation with an argument of the wrong type
\* rejects at once, before any open request or transaction is made, and
\* leaves version, schema, records and the cached handle and version as
\* they were.
C11_WrongTypeRejects ==
    [][ (call'.id # call.id /\ WrongType(call'))
        => (call'.st = "rejected" /\ HostUnchanged
            /\ UNCHANGED <<database, databaseVersion>>) ]_vars

\* The current call settles in this step.
Settles(op) == call.op = op /\ call.st = "pending" /\ call'.st # "pending" /\ call'.id = call.id

\* The fields of rec on which a record of the store collides with it: those
\* indexed as unique on which a record holds rec's value.
Collisions(st, rec) ==
    {f \in DOMAIN st.idx : st.idx[f] /\ f \in DOMAIN rec /\ Matches(st, f, rec[f]) # {}}

\* C12: inserting a record whose value on a field indexed as unique is held
\* by a record of the container rejects and leaves the container's records
\* as they were; and selectDataObjectStore on a unique index and a value a
\* record holds resolves with that record.
C12_UniqueInsertRejects ==
    [][ /\ ( /\ Settles("insert")
              /\ call.store \in DOMAIN stores
              /\ Collisions(stores[call.store], call.arg.recs[1]) # {} )
           => /\ call'.st = "rejected"
              /\ stores' = stores
        /\ ( /\ Settles("select")
              /\ call.store \in DOMAIN stores
              /\ call.arg.q.index \in DOMAIN stores[call.store].idx
              /\ stores[call.store].idx[call.arg.q.index]
              /\ call.arg.q.fields = <<>>
              /\ Matches(stores[call.store], call.arg.q.index, call.arg.q.value) # {} )
           => /\ call'.st = "resolved"
              /\ \E i \in Matches(stores[call.store], call.arg.q.index, call.arg.q.value) :
                     call'.data = <<stores[call.store].recs[i].val>> ]_vars

\* The second insert of {b: 2} was refused and the first is still there.
C12_Witness ==
    /\ call.op = "insert"
    /\ call.st = "rejected"
    /\ call.res = "ConstraintError"
    /\ Collisions(stores[call.store], call.arg.recs[1]) # {}
    /\ stores[call.store].recs = pre.stores[call.store].recs

\* A record of the batch holds, on a field indexed as unique, the value of a
\* record of the store or of an earlier record of the batch.
BatchCollides(st, recs) ==
    \E i \in 1..Len(recs) :
        \/ Collisions(st, recs[i]) # {}
        \/ \E j \in 1..(i - 1), f \in DOMAIN st.idx :
               /\ st.idx[f]
               /\ f \in DOMAIN recs[i] /\ f \in DOMAIN recs[j]
               /\ recs[i][f] = recs[j][f]

\* C13: insertMultipleDataObjectStore is all-or-nothing: when one of its adds
\* is refused, the call rejects and the container's records are those of
\* before its transaction, with none of the batch added.
C13_BatchAllOrNothing ==
    [][ ( /\ Settles("insertMultiple")
          /\ call.store \in DOMAIN stores
          /\ BatchCollides(stores[call.store], call.arg.recs) )
        => (call'.st = "rejected" /\ stores' = stores) ]_vars

\* A batch whose first record could be added and whose second collided was
\* rejected, and the store holds what it held.
C13_Witness ==
    /\ call.op = "insertMultiple"
    /\ call.st = "rejected"
    /\ call.res = "ConstraintError"
    /\ Collisions(stores[call.store], call.arg.recs[1]) = {}
    /\ BatchCollides(stores[call.store], call.arg.recs)
    /\ stores[call.store].recs # <<>>
    /\ stores[call.store].recs = pre.stores[call.store].recs

\* C14: a successful insertDataObjectStore resolves with the key the store
\* assigned to the new record, and an insert into a container the database
\* does not have rejects.
C14_InsertResolvesKey ==
    [][ /\ (Settles("insert") /\ call'.st = "resolved")
           => /\ call'.data = <<stores[call.store].nextKey>>
              /\ \E i \in 1..Len(stores'[call.store].recs) :
                     /\ stores'[call.store].recs[i].key = stores[call.store].nextKey
                     /\ stores'[call.store].recs[i].val = call.arg.recs[1]
        /\ (Calls("insert") /\ call'.store \notin DOMAIN stores)
           => call'.st = "rejected" ]_vars

\* The record with the lowest key among those that hold value v on field f
LowestMatch(st, f, v) ==
    CHOOSE i \in Matches(st, f, v) :
        \A j \in Matches(st, f, v) : st.recs[i].key <= st.recs[j].key

\* The requested fields that the record has, with their values
Requested(rec, fields) ==
    [f \in {g \in DOMAIN rec : \E i \in 1..Len(fields) : fields[i] = g} |-> rec[f]]

\* What a select is to resolve with, given the value to resolve with when no
\* record holds the value: <<kind, value>>.
SelectResult(st, q, none) ==
    IF Matches(st, q.index, q.value) = {} THEN <<none, <<>>>>
    ELSE LET rec == st.recs[LowestMatch(st, q.index, q.value)].val IN
         IF q.fields = <<>> THEN <<"record", <<rec>>>>
         ELSE IF DOMAIN Requested(rec, q.fields) = {} THEN <<"null", <<>>>>
         ELSE <<"record", <<Requested(rec, q.fields)>>>>

\* selectDataObjectStore rejects when called with an index the container
\* does not have, and else resolves as SelectResult says.
SelectSettlesAs(none) ==
    /\ ( /\ Calls("select")
          /\ call'.store \in DOMAIN stores
          /\ call'.arg.q.index \notin DOMAIN stores[call'.store].idx )
       => call'.st = "rejected"
    /\ Settles("select")
       => /\ call'.st = "resolved"
          /\ <<call'.res, call'.data>> = SelectResult(stores[call.store], call.arg.q, none)

\* C15 (as amended): selectDataObjectStore rejects when the index is
\* undeclared, resolves with undefined when no record has the value on the
\* index, and when a fields list is given resolves with only the requested
\* fields present on the matched record, or null when none is present.
C15_SelectUndefinedOnNoMatch == [][SelectSettlesAs("undefined")]_vars

\* C15 (as claimed): the same, with null when no record has the value.
C15_SelectNullOnNoMatch == [][SelectSettlesAs("null")]_vars

\* A select on a value that no record of a non-empty container holds has
\* resolved.
C15_Witness ==
    /\ call.op = "select"
    /\ call.st = "resolved"
    /\ call.res = "undefined"
    /\ stores[call.store].recs # <<>>
    /\ stores[call.store].recs = pre.stores[call.store].recs
    /\ Matches(stores[call.store], call.arg.q.index, call.arg.q.value) = {}

\* Entry e of a selectMultiple result, as <<kind, value>>
Entry(e) == <<e.kind, IF e.kind = "record" THEN <<e.val>> ELSE <<>>>>

\* C16: selectMultipleDataObjectStore resolves with an array as long as the
\* query list, whose i-th entry is the result of the i-th query (undefined
\* or null for a query without a match), for every mix of matching and
\* non-matching queries.
C16_ResultsInQueryOrder ==
    [][ Settles("selectMultiple")
        => /\ call'.st = "resolved"
           /\ Len(call'.data) = Len(call.arg.q.list)
           /\ \A i \in 1..Len(call.arg.q.list) :
                  \E none \in {"null", "undefined"} :
                      Entry(call'.data[i]) =
                          SelectResult(stores[call.store], call.arg.q.list[i], none) ]_vars

\* Entry i of the query list fails: its index is undeclared or no record
\* holds its value.
EntryFails(st, e) == e.index \notin DOMAIN st.idx \/ Matches(st, e.index, e.value) = {}

\* C17: in selectMultipleDataObjectStore the failure of one entry (index
\* undeclared, value without a match) does not reject the call: it resolves,
\* with null or undefined in that entry's slot and the other entries'
\* results in theirs.
C17_EntryFailureIsDegraded ==
    [][ /\ ( /\ Calls("selectMultiple")
              /\ call'.arg.q.list # <<>>
              /\ ~WrongType(call')
              /\ call'.store \in DOMAIN stores )
           => call'.st # "rejected"
        /\ Settles("selectMultiple")
           => /\ call'.st = "resolved"
              /\ Len(call'.data) = Len(call.arg.q.list)
              /\ \A i \in 1..Len(call.arg.q.list) :
                     IF EntryFails(stores[call.store], call.arg.q.list[i])
                     THEN call'.data[i].kind \in {"null", "undefined"}
                     ELSE Entry(call'.data[i]) =
                              SelectResult(stores[call.store], call.arg.q.list[i], "null") ]_vars

\* The transaction of the given kind that the current call started runs in
\* this step.
Ran(kind) ==
    /\ \E i \in 1..Len(txQ) : txQ[i].owner = call.id /\ txQ[i].kind = kind
    /\ ~\E i \in 1..Len(txQ') : txQ'[i].owner = call.id /\ txQ'[i].kind = kind
    /\ call'.id = call.id

\* The last of the pairs that names field f (0: none does)
LastPair(pairs, f) ==
    IF \E i \in 1..Len(pairs) : pairs[i].index = f
    THEN CHOOSE i \in 1..Len(pairs) :
             /\ pairs[i].index = f
             /\ \A j \in 1..Len(pairs) : pairs[j].index = f => j <= i
    ELSE 0

\* What updateDataObjectStore is to make of a record: one that holds the
\* current value on the field keeps its fields; each takes the value of the
\* last pair naming it, else the new value when it is the searched field
\* and is to change, else its own.
UpdatedRecord(rec, q) ==
    IF q.index \in DOMAIN rec /\ rec[q.index] = q.value
    THEN [f \in DOMAIN rec |->
             IF LastPair(q.pairs, f) # 0 THEN q.pairs[LastPair(q.pairs, f)].value
             ELSE IF f = q.index /\ q.change THEN q.newValue
             ELSE rec[f]]
    ELSE rec

\* C18: when the scan of updateDataObjectStore runs without an error, every
\* record whose field `index` equals currentValue (all of them, not the
\* first only) gets newValue there when changeValueFromCurrentValue is true
\* and each extra {index, value} on the fields it already has; the other
\* records, and the keys and order of all, are unchanged.
C18_UpdatesEveryMatch ==
    [][ (Ran("update") /\ call'.st # "rejected")
        => /\ \A n \in DOMAIN stores : n # call.store => stores'[n] = stores[n]
           /\ stores'[call.store] =
                  [stores[call.store] EXCEPT !.recs =
                      [i \in 1..Len(@) |->
                          [key |-> @[i].key, val |-> UpdatedRecord(@[i].val, call.arg.q)]]] ]_vars

\* An update has changed two records of a container and left a third as it
\* was.
C18_Witness ==
    /\ call.op = "updateData"
    /\ call.st # "rejected"
    /\ txQ = <<>>
    /\ Len(stores["A"].recs) = Len(pre.stores["A"].recs)
    /\ Cardinality({i \in 1..Len(stores["A"].recs) :
                       stores["A"].recs[i] # pre.stores["A"].recs[i]}) >= 2
    /\ \E i \in 1..Len(stores["A"].recs) : stores["A"].recs[i] = pre.stores["A"].recs[i]

\* The host has answered every request of the current call: none of the
\* transactions it started is pending.
Answered == ~\E i \in 1..Len(txQ) : txQ[i].owner = call.id

\* C19: the promise of updateDataObjectStore settles: once the host has
\* answered every request of the call, the scan having reached the end, the
\* promise is resolved, or rejected if a request failed.
C19_UpdateSettles ==
    (call.op = "updateData" /\ Answered) => call.st \in {"resolved", "rejected"}

\* C20: deleteDataObjectStore with deleteAllOccurrences = false removes at
\* most one record: when records hold the value on the index, the one of
\* them with the lowest key is removed and every other record is unchanged;
\* when none does, no record is removed.
C20_DeletesLowestMatch ==
    [][ (Ran("delete") /\ ~call.arg.q.all)
        => LET st == stores[call.store]
               M == Matches(st, call.arg.q.index, call.arg.q.value)
           IN IF M = {} THEN stores' = stores
              ELSE /\ \A n \in DOMAIN stores : n # call.store => stores'[n] = stores[n]
                   /\ stores'[call.store] =
                          [st EXCEPT !.recs = SelectSeq(@, LAMBDA r :
                              r.key # st.recs[LowestMatch(st, call.arg.q.index,
                                                          call.arg.q.value)].key)] ]_vars

\* Of two records holding the value, one was deleted and the other is
\* still there.
C20_Witness ==
    /\ call.op = "deleteData"
    /\ ~call.arg.q.all
    /\ call.st = "resolved"
    /\ Len(stores["A"].recs) = Len(pre.stores["A"].recs) - 1
    /\ Matches(stores["A"], call.arg.q.index, call.arg.q.value) # {}
    /\ stores["A"].recs = Tail(pre.stores["A"].recs)

\* C21: deleteDataObjectStore with deleteAllOccurrences = true removes
\* exactly the records that hold the value on the indexed field and leaves
\* every other record, with its key and in its place.
C21_DeletesEveryMatch ==
    [][ (Ran("delete") /\ call.arg.q.all)
        => /\ \A n \in DOMAIN stores : n # call.store => stores'[n] = stores[n]
           /\ stores'[call.store] =
                  [stores[call.store] EXCEPT !.recs = SelectSeq(@, LAMBDA r :
                      ~(call.arg.q.index \in DOMAIN r.val
                        /\ r.val[call.arg.q.index] = call.arg.q.value))] ]_vars

\* Of three records, the two that held the value are gone and the third is
\* left.
C21_Witness ==
    /\ call.op = "deleteData"
    /\ call.arg.q.all
    /\ Answered
    /\ call.st # "rejected"
    /\ Len(pre.stores["A"].recs) = 3
    /\ Len(stores["A"].recs) = 1
    /\ \E i \in 1..3 : stores["A"].recs[1] = pre.stores["A"].recs[i]
    /\ Matches(stores["A"], call.arg.q.index, call.arg.q.value) = {}

\* C22: the promise of deleteDataObjectStore settles in both modes: once
\* the host has answered every request of the call, it is resolved, or
\* rejected if a request failed.
C22_DeleteSettles ==
    (call.op = "deleteData" /\ Answered) => call.st \in {"resolved", "rejected"}

\* The records of the store in key order, each cut to the fields of the list
\* it has, without those left with no field; every record whole when the
\* list is empty.
InKeyOrder(st) ==
    \A i, j \in 1..Len(st.recs) : i < j => st.recs[i].key < st.recs[j].key
Selected(st, fields) ==
    IF fields = <<>> THEN Values(st)
    ELSE SelectSeq([i \in 1..Len(st.recs) |-> Requested(st.recs[i].val, fields)],
                   LAMBDA r : DOMAIN r # {})

\* The names of the list that are not blank, in the list's order
NonBlank(fields) == SelectSeq(fields, LAMBDA n : n \notin {"", " "})

\* C23 (as amended): selectAllDataObjectStore with a fields list that holds a
\* non-blank name returns, for each stored record in key order, only the
\* requested fields the record has, blank names ignored, and omits records
\* that have none; with no fields list, or one of blank names only, it
\* returns every record unchanged.
C23_SelectAllIgnoringBlanks ==
    [][ Settles("selectAll")
        => /\ InKeyOrder(stores[call.store])
           /\ call'.st = "resolved"
           /\ call'.data = Selected(stores[call.store], NonBlank(call.arg.q.fields)) ]_vars

\* C23 (as stated): selectAllDataObjectStore with a non-empty fields list
\* returns, for each stored record in key order, only the requested fields
\* the record has and omits records that have none; with no fields list it
\* returns every record unchanged.
C23_SelectAllProjects ==
    [][ Settles("selectAll")
        => /\ InKeyOrder(stores[call.store])
           /\ call'.st = "resolved"
           /\ call'.data = Selected(stores[call.store], call.arg.q.fields) ]_vars

\* A selection of two fields has answered with one record of two: one record
\* had neither field and is omitted, the other is cut to the field it has.
C23_Witness ==
    /\ call.op = "selectAll"
    /\ call.st = "resolved"
    /\ call.arg.q.fields = <<"a", "c">>
    /\ Len(stores["A"].recs) = 2
    /\ Len(call.data) = 1
    /\ \E i \in 1..2 : /\ DOMAIN call.data[1] # DOMAIN stores["A"].recs[i].val
                        /\ DOMAIN call.data[1] \subseteq DOMAIN stores["A"].recs[i].val

\* The call in progress empties a container whole: deleteAllDataObjectStore
\* without a field list, or cleanObjectStore.
Empties ==
    \/ call.op = "deleteAll" /\ call.arg.q.fields = <<>>
    \/ call.op = "clean"

\* C24: deleteAllDataObjectStore without a field list removes every record
\* of the container and leaves the container, its index set, the version
\* and every other container unchanged; cleanObjectStore has the same
\* effect on the database.
C24_ClearKeepsTheRest ==
    [][ (Empties /\ call.st = "pending" /\ call'.st # "pending" /\ call'.id = call.id)
        => /\ call'.st = "resolved"
           /\ stores' = [stores EXCEPT ![call.store].recs = <<>>]
           /\ dbVersion' = dbVersion ]_vars

\* cleanObjectStore has resolved on a container that held records: it is
\* empty, with the indexes it had.
C24_Witness ==
    /\ call.op = "clean"
    /\ call.st = "resolved"
    /\ pre.stores["A"].recs # <<>>
    /\ stores["A"].recs = <<>>
    /\ stores["A"].idx = pre.stores["A"].idx
    /\ DOMAIN stores["A"].idx # {}
    /\ dbVersion = pre.ver

\* C30: when the promise of deleteAllDataObjectStore with a field list
\* resolves, no record of the container has a named field, and the records
\* are those the container had, without the named fields and without the
\* records that had no other field.
C30_StrippedWhenResolved ==
    ( /\ call.op = "deleteAll"
      /\ call.arg.q.fields # <<>>
      /\ call.st = "resolved"
      /\ pre.quiet )
    => /\ \A i \in 1..Len(stores[call.store].recs) :
              \A j \in 1..Len(call.arg.q.fields) :
                  call.arg.q.fields[j] \notin DOMAIN stores[call.store].recs[i].val
       /\ Values(stores[call.store]) =
              SelectSeq([i \in 1..Len(pre.stores[call.store].recs) |->
                            [f \in DOMAIN pre.stores[call.store].recs[i].val
                                    \ {call.arg.q.fields[j] : j \in 1..Len(call.arg.q.fields)}
                                |-> pre.stores[call.store].recs[i].val[f]]],
                        LAMBDA r : DOMAIN r # {})

\* C25: when a structural operation's open request has been reported blocked
\* and a connection that is not closing is still open, the operation's
\* promise is rejected with the blocked error.
C25_BlockedRejects ==
    \A i \in 1..Len(openQ) :
        ( /\ call.op \in Structural
          /\ openQ[i].owner = call.id
          /\ openQ[i].blocked
          /\ conns \ closing # {} )
        => (call.st = "rejected" /\ call.res = "blocked")

\* The promise of the current call has settled and its callbacks have run.
Finished == call.st \in {"resolved", "rejected"} /\ Quiet
\* The connections of the instance: all but the other tab's.
Held == conns \ {OtherTab}

C27_NullWithoutMarker ==
    [][ /\ ( /\ Calls("getLastModify")
             /\ database.id # 0
             /\ Marker \notin DOMAIN stores )
           => (call'.st = "resolved" /\ call'.res = "null")
        /\ Settles("getLastModify")
           => /\ call'.st = "resolved"
              /\ IF stores[Marker].recs = <<>>
                 THEN call'.res = "null"
                 ELSE /\ call'.res = "date"
                      /\ call'.data =
                            <<stores[Marker].recs[Len(stores[Marker].recs)].val[MarkerField]>>
      ]_vars

\* C28: delete(databaseName) deletes the database its argument names and no
\* other, and delete() without a name deletes the instance's database and no
\* other: when the promise resolves, the named database is gone and every
\* other database is as it was.
C28_DeletesTheNamed ==
    [][ ( /\ Settles("deleteDatabase")
          /\ call'.st = "resolved"
          /\ IsString(call.store) )
        => IF call.store \in OtherDatabases
           THEN /\ others' = others \ {call.store}
                /\ dbVersion' = dbVersion
                /\ stores' = stores
           ELSE /\ dbVersion' = 0
                /\ stores' = <<>>
                /\ others' = others ]_vars

\* The host has answered every request it can answer while the connections
\* that are open stay open, and no other tab is connected.
HostIdle ==
    /\ txQ = <<>>
    /\ upg.conn = 0
    /\ openQ # <<>> => (MustWait(World) /\ Head(openQ).blocked)
    /\ OtherTab \notin conns

\* C29: the promise of delete() on an initialized instance resolves and the
\* database no longer exists, once the host has answered every request it
\* can answer.
C29_DeleteResolves ==
    ( /\ call.op = "deleteDatabase"
      /\ call.store = ""
      /\ database.id # 0
      /\ HostIdle )
    => (call.st = "resolved" /\ dbVersion = 0)

\* The configured time zone is one the host cannot format.
InvalidZone == timezoneLastModifyDate \notin zones

\* C31: with a configured time zone the host cannot format, a
\* createObjectStore of a container the database lacks and a
\* deleteObjectStore of one it has still commit their edit and resolve.
C31_InvalidZoneCommits ==
    [][ /\ ( /\ InvalidZone
             /\ Settles("create")
             /\ call.store \notin DOMAIN pre.stores
             /\ ~HasDupNames(call.arg.idx) )
           => /\ call'.st = "resolved"
              /\ call.store \in DOMAIN stores'
              /\ HasIndexes(stores'[call.store], call.arg.idx)
        /\ ( /\ InvalidZone
             /\ Settles("delete")
             /\ call.store \in DOMAIN pre.stores )
           => /\ call'.st = "resolved"
              /\ call.store \notin DOMAIN stores' ]_vars

\* On a host that cannot format the configured zone, a deleteObjectStore has
\* resolved and its container is gone; the marker was never written.
C31_Witness ==
    /\ InvalidZone
    /\ call.op = "delete"
    /\ call.st = "resolved"
    /\ call.store \in DOMAIN pre.stores
    /\ call.store \notin DOMAIN stores
    /\ Marker \notin DOMAIN stores

\* The index names the rules of the claim give: every add, less every
\* remove, then for each rename in turn without the old name and with the new.
RECURSIVE AfterRenames(_, _)
AfterRenames(names, renames) ==
    IF renames = <<>> THEN names
    ELSE AfterRenames((names \ {Head(renames).oldName}) \cup {Head(renames).newName},
                      Tail(renames))
ExpectedIndexes(names, arg) ==
    AfterRenames((names \cup {arg.adds[i].name : i \in 1..Len(arg.adds)})
                     \ {arg.removes[i] : i \in 1..Len(arg.removes)},
                 arg.renames)

\* C32: when updateStructureObjectStore resolves, the index set of the
\* container is the one it had at the call, with the adds, then without the
\* removes, then with each rename's old name deleted and new name created.
C32_IndexSetAsAsked ==
    [][ ( /\ Settles("update")
          /\ call'.st = "resolved"
          /\ call.store \in DOMAIN pre.stores )
        => /\ call.store \in DOMAIN stores'
           /\ IndexSet(stores'[call.store]) =
                  ExpectedIndexes(IndexSet(pre.stores[call.store]), call.arg) ]_vars

\* An update with two renames of the same index has resolved: the old name is
\* gone and both new names are indexes.
C32_Witness ==
    /\ call.op = "update"
    /\ call.st = "resolved"
    /\ Len(call.arg.renames) = 2
    /\ call.store \in DOMAIN pre.stores
    /\ call.store \in DOMAIN stores
    /\ IndexSet(pre.stores[call.store]) = {"a"}
    /\ IndexSet(stores[call.store]) = {"b", "c"}

\* C33: an updateStructureObjectStore called, with nothing else in progress,
\* on a container that holds no records leaves it with no records.
C33_EmptyStaysEmpty ==
    ( /\ call.op = "update"
      /\ pre.quiet
      /\ call.store \in DOMAIN pre.stores
      /\ pre.stores[call.store].recs = <<>>
      /\ call.store \in DOMAIN stores )
    => stores[call.store].recs = <<>>

\* ------------------------------------- a read during a structural change
\* The promise of a call made without awaiting the one in progress
Observer == 98

\* selectAllDataObjectStore(name) called while updateStructureObjectStore is
\* in progress on the same instance; the call is made when the handle accepts
\* a transaction (otherwise it rejects at once, and nothing is read).
ConcurrentSelectAll ==
    /\ call.op = "update"
    /\ call.st = "pending"
    /\ ~\E i \in 1..Len(txQ) : txQ[i].owner = Observer
    /\ LET w == selectAllDataObjectStore(World, call.store, <<>>, Observer, "selectAll")
       IN w.txQ # txQ /\ Install(w)
    /\ UNCHANGED pre

\* Records are inserted and the structure changed, from the state after
\* initialize and createObjectStore("A", ...), with reads in between.
NextMigrate ==
    \/ InsertMultipleDataObjectStore
    \/ UpdateStructureObjectStore
    \/ ConcurrentSelectAll
    \/ HostUpgrade
    \/ HostFinishUpgrade
    \/ HostOpen
    \/ HostTx

SpecMigrate == InitCrud /\ [][NextMigrate]_vars

\* The concurrent read's transaction runs in this step: what it returns is
\* the container as it is now.
Observes ==
    /\ \E i \in 1..Len(txQ) : txQ[i].owner = Observer
    /\ ~\E i \in 1..Len(txQ') : txQ'[i].owner = Observer

\* An updateStructureObjectStore with renames, called with nothing else in
\* progress on a container that holds records, has not settled yet.
Migrating ==
    /\ call.op = "update"
    /\ call.st = "pending"
    /\ call.arg.renames # <<>>
    /\ pre.quiet
    /\ call.store \in DOMAIN pre.stores
    /\ pre.stores[call.store].recs # <<>>

\* The container as it was before the call, or as the call is to leave it.
AsBefore ==
    /\ IndexSet(stores[call.store]) = IndexSet(pre.stores[call.store])
    /\ Values(stores[call.store]) = Values(pre.stores[call.store])
AsAfter ==
    /\ IndexSet(stores[call.store]) = ExpectedIndexes(IndexSet(pre.stores[call.store]), call.arg)
    /\ Values(stores[call.store]) =
           changeIndexData(call.arg.renames, Values(pre.stores[call.store]))

\* C34: a read made on the same instance while a structural change with
\* renames is in progress on a container that holds records finds the
\* container either as before the change or as after it, never in between.
C34_NoIntermediateRead ==
    [][ (Migrating /\ Observes) => (call.store \in DOMAIN stores /\ (AsBefore \/ AsAfter)) ]_vars

\* C35: in one scan of updateDataObjectStore, whether it ends well or with an
\* error, the container keeps its number of records and every record its
\* key; each record is either as before the scan or what one update makes of
\* its value before the scan, so a record that does not hold currentValue
\* before the scan is unchanged, and one set to a newValue equal to
\* currentValue is not updated again.
C35_OneUpdatePerRecord ==
    [][ Ran("update")
        => /\ call.store \in DOMAIN stores'
           /\ Len(stores'[call.store].recs) = Len(stores[call.store].recs)
           /\ \A i \in 1..Len(stores[call.store].recs) :
                 /\ stores'[call.store].recs[i].key = stores[call.store].recs[i].key
                 /\ stores'[call.store].recs[i].val \in
                        { stores[call.store].recs[i].val,
                          UpdatedRecord(stores[call.store].recs[i].val, call.arg.q) } ]_vars

\* A scan with newValue equal to currentValue has run to its end over a
\* container where two records hold that value.
C35_Witness ==
    /\ call.op = "updateData"
    /\ call.st = "pending"
    /\ Answered
    /\ call.arg.q.change
    /\ call.arg.q.newValue = call.arg.q.value
    /\ Cardinality(Matches(stores["A"], call.arg.q.index, call.arg.q.value)) >= 2

\* The world with the current call's promise still to be settled: a handler
\* that settles the promise here is one that calls resolve or reject.
Reopened == [World EXCEPT !.call.st = "pending"]

\* A host event is due whose handler calls resolve or reject on the current
\* call's promise.
HandlerWillSettle ==
    \/ /\ upg.conn = 0
       /\ openQ # <<>>
       /\ Head(openQ).kind # "deleteDb"
       /\ AskedVersion(World, Head(openQ)) > dbVersion
       /\ conns = {}
       /\ StartUpgrade(Reopened).call.st # "pending"
    \/ /\ upg.conn # 0
       /\ FinishUpgrade(Reopened).call.st # "pending"
    \/ /\ upg.conn = 0
       /\ openQ # <<>>
       /\ Head(openQ).kind # "deleteDb"
       /\ AskedVersion(World, Head(openQ)) <= dbVersion
       /\ OpenNoUpgrade(Reopened).call.st # "pending"
    \/ \E i \in 1..Len(txQ) :
          /\ \A j \in 1..(i - 1) : txQ[j].store # txQ[i].store
          /\ RunTx(Reopened, i).call.st # "pending"

\* C36: once the promise of a call is settled, no host event handler of the
\* call calls resolve or reject on it again.
C36_SettledOnce == call.st # "pending" => ~HandlerWillSettle

\* C37: whenever the promise of a call on an initialized instance has
\* settled, the cached handle is an open connection and the cached version
\* is the database's version.
C37_SettledInSync ==
    (call.st \in {"resolved", "rejected"} /\ database.id # 0) => InSync

\* C38: when an updateStructureObjectStore that only adds and removes indexes
\* has settled, well or not, and the host has nothing left to do, the
\* container's records have the contents, in the order, they had before the
\* call.
C38_AddsRemovesKeepRecords ==
    ( /\ call.op = "update"
      /\ call.arg.renames = <<>>
      /\ call.st \in {"resolved", "rejected"}
      /\ Quiet
      /\ pre.quiet
      /\ call.store \in DOMAIN pre.stores
      /\ call.store \in DOMAIN stores )
    => Values(stores[call.store]) = Values(pre.stores[call.store])
====
